---- MODULE Spec2Model ----
(***************************************************************************)
(* NetPolicy: ruleset validation (core/rules.rs, core/dsl.rs), the rule    *)
(* decision engine (core/engine.rs), the operational state machine         *)
(* (core/state.rs), action planning and rendering (core/actions.rs,        *)
(* core/action_backend.rs), the proxy codec and assembler (core/xray.rs),  *)
(* the system inspector (core/inspector.rs), the telemetry counters        *)
(* (core/telemetry.rs), and the daemon's child manager, live loop and      *)
(* request handlers (cmd/netpolicyd/main.rs).                              *)
(*                                                                         *)
(* Strings are sequences of one-character strings, so that trimming, case  *)
(* folding, splitting and number parsing are computed, not assumed.        *)
(* Option<T> is <<>> (None) or <<v>> (Some(v)); Result<T, E> is a record   *)
(* with an ok flag.                                                        *)
(***************************************************************************)
EXTENDS Integers, Sequences, FiniteSets, TLC

VARIABLES
    sm_state,      \* StateMachine.state
    sm_op,         \* the last StateMachine call: "new", "set_state", "transition"
    sm_prev,       \* StateMachine.state when the last call was entered
    sm_latency,    \* latency_ms argument of the last transition call
    sm_error,      \* error_rate argument of the last transition call
    source,        \* the ruleset text handed to the parser (YAML or DSL)
    loaded,        \* None, or Some(the Result of parse_ruleset / parse_dsl)
    eval_ctx,      \* the MatchContext of the last evaluation
    eval_state,    \* the EngineState of the last evaluation
    decision,      \* None, or Some(the Result of evaluate_ruleset)
    port_pattern,  \* a port pattern
    port_valid,    \* None, or Some(the Result of validate_port_pattern)
    port_arg,      \* None, or Some(the Option<u16> port of the context matched)
    port_match,    \* None, or Some(the bool the port predicate returned)
    sni_pattern,   \* an sni pattern
    sni_value,     \* the context sni match_sni was called with (an Option)
    sni_result,    \* None, or Some(the bool match_sni returned)
    hasher,        \* DefaultHasher: the hash of each route or class name
    plan_arg,      \* the Action handed to plan_action
    plan_decision, \* None, or Some(the ActionDecision plan_action returned)
    backend_ctx,   \* the MatchContext handed to render_backend
    backend_plan,  \* None, or Some(the BackendPlan render_backend returned)
    xray_urls,     \* the share-URIs handed to parse_proxy_urls
    xray_result,   \* None, or Some(the Result of parse_proxy_urls)
    xray_nodes,    \* the ProxyNodes handed to build_xray_config
    xray_config,   \* None, or Some(the XrayConfig build_xray_config returned)
    process,       \* XrayManager.process: None, or Some(the pid of the Child held)
    children,      \* the status of every child spawned so far, by pid
    mgr_call,      \* the last XrayManager call: its name, the manager before and after, its result
    live_args,     \* run_live: the Args (hot_reload, state, backend)
    live_file,     \* the ruleset file at args.config_path
    ruleset,       \* run_live: the ruleset in use
    last_modified, \* run_live: the modification time of the file last loaded
    live_tick,     \* the last pass of the loop of run_live
    telemetry,     \* Telemetry: the six counters and last_error
    tel_threads,   \* for each thread, the Telemetry call it is in and the steps it has left
    tel_calls,     \* how many calls were made so far, and how many of each kind of record_decision
    tel_floor,     \* for each counter, the largest value a completed snapshot reported
    web_call       \* the last request handled: its name, the telemetry before, the response

smVars == <<sm_state, sm_op, sm_prev, sm_latency, sm_error>>
ruleVars == <<source, loaded, eval_ctx, eval_state, decision>>
portVars == <<port_pattern, port_valid, port_arg, port_match>>
sniVars == <<sni_pattern, sni_value, sni_result>>

planVars == <<hasher, plan_arg, plan_decision, backend_ctx, backend_plan>>
xrayVars == <<xray_urls, xray_result, xray_nodes, xray_config>>
mgrVars == <<process, children, mgr_call>>
liveVars == <<live_args, live_file, ruleset, last_modified, live_tick>>
telVars == <<telemetry, tel_threads, tel_calls, tel_floor, web_call>>
runVars == <<mgrVars, liveVars, telVars>>
daemonVars == <<planVars, xrayVars, runVars>>
coreVars == <<smVars, ruleVars, portVars, sniVars>>
vars == <<coreVars, daemonVars>>

(***************************************************************************)
(* Option and string primitives                                            *)
(***************************************************************************)
None == <<>>
Some(v) == <<v>>
is_some(o) == o # <<>>
unwrap(o) == o[1]
unwrap_or(o, d) == IF o = <<>> THEN d ELSE o[1]

LowerAlpha ==
    <<"a","b","c","d","e","f","g","h","i","j","k","l","m",
      "n","o","p","q","r","s","t","u","v","w","x","y","z">>
UpperAlpha ==
    <<"A","B","C","D","E","F","G","H","I","J","K","L","M",
      "N","O","P","Q","R","S","T","U","V","W","X","Y","Z">>
DigitChars == <<"0","1","2","3","4","5","6","7","8","9">>

is_whitespace(c) == c \in {" ", "\t"}
is_digit(c) == \E i \in 1..Len(DigitChars) : DigitChars[i] = c
digit_value(c) == (CHOOSE i \in 1..Len(DigitChars) : DigitChars[i] = c) - 1

char_to_upper(c) ==
    IF \E i \in 1..Len(LowerAlpha) : LowerAlpha[i] = c
    THEN UpperAlpha[CHOOSE i \in 1..Len(LowerAlpha) : LowerAlpha[i] = c]
    ELSE c
char_to_lower(c) ==
    IF \E i \in 1..Len(UpperAlpha) : UpperAlpha[i] = c
    THEN LowerAlpha[CHOOSE i \in 1..Len(UpperAlpha) : UpperAlpha[i] = c]
    ELSE c
to_uppercase(s) == [i \in 1..Len(s) |-> char_to_upper(s[i])]
to_lowercase(s) == [i \in 1..Len(s) |-> char_to_lower(s[i])]

RECURSIVE trim_start(_)
trim_start(s) ==
    IF s # <<>> /\ is_whitespace(Head(s)) THEN trim_start(Tail(s)) ELSE s
RECURSIVE trim_end(_)
trim_end(s) ==
    IF s # <<>> /\ is_whitespace(s[Len(s)])
    THEN trim_end(SubSeq(s, 1, Len(s) - 1))
    ELSE s
trim(s) == trim_end(trim_start(s))

starts_with(s, p) == Len(p) <= Len(s) /\ SubSeq(s, 1, Len(p)) = p
ends_with(s, p) == Len(p) <= Len(s) /\ SubSeq(s, Len(s) - Len(p) + 1, Len(s)) = p
strip_prefix(s, p) ==
    IF starts_with(s, p) THEN Some(SubSeq(s, Len(p) + 1, Len(s))) ELSE None
strip_suffix(s, p) ==
    IF ends_with(s, p) THEN Some(SubSeq(s, 1, Len(s) - Len(p))) ELSE None

\* position of the first occurrence of character c in s, 0 when there is none
find_char(s, c) ==
    IF \E i \in 1..Len(s) : s[i] = c
    THEN CHOOSE i \in 1..Len(s) : s[i] = c /\ \A j \in 1..(i - 1) : s[j] # c
    ELSE 0
\* str::split_once(c): None, or Some(<<before, after>>) around the first c
split_once(s, c) ==
    LET k == find_char(s, c) IN
    IF k = 0 THEN None
    ELSE Some(<<SubSeq(s, 1, k - 1), SubSeq(s, k + 1, Len(s))>>)
\* str::split(c): the pieces between the occurrences of c (never empty)
RECURSIVE split(_, _)
split(s, c) ==
    LET k == find_char(s, c) IN
    IF k = 0 THEN <<s>>
    ELSE <<SubSeq(s, 1, k - 1)>> \o split(SubSeq(s, k + 1, Len(s)), c)

U16_MAX == 65535
I32_MAX == 2147483647

Ok(v) == [ok |-> TRUE, value |-> v]
\* an error of the given kind; line is the 1-based line number the message
\* names (0: the message names none), text the fixed part of the message
ErrAt(kind, line, text) == [ok |-> FALSE, kind |-> kind, line |-> line, text |-> text]
Err(kind, text) == ErrAt(kind, 0, text)

\* value of a digit string, -1 once it exceeds max
RECURSIVE digits_value(_, _, _)
digits_value(s, acc, max) ==
    IF s = <<>> THEN acc
    ELSE LET d == digit_value(Head(s)) IN
         IF acc > (max - d) \div 10 THEN -1
         ELSE digits_value(Tail(s), acc * 10 + d, max)
all_digits(s) == s # <<>> /\ \A i \in 1..Len(s) : is_digit(s[i])
\* str::parse::<uN>(): an optional '+', then one or more decimal digits, no
\* spaces; Err (None) on anything else and on overflow
parse_unsigned(s, max) ==
    LET body == IF s # <<>> /\ Head(s) = "+" THEN Tail(s) ELSE s IN
    IF ~all_digits(body) THEN None
    ELSE LET v == digits_value(body, 0, max) IN
         IF v < 0 THEN None ELSE Some(v)
parse_u16(s) == parse_unsigned(s, U16_MAX)

\* format!("{}", n) and format!("{:x}", n) of an unsigned integer
HexChars == <<"0","1","2","3","4","5","6","7","8","9","a","b","c","d","e","f">>
RECURSIVE fmt_radix(_, _)
fmt_radix(n, radix) ==
    IF n < radix THEN <<HexChars[n + 1]>>
    ELSE fmt_radix(n \div radix, radix) \o <<HexChars[(n % radix) + 1]>>
fmt_decimal(n) == fmt_radix(n, 10)
fmt_hex(n) == fmt_radix(n, 16)

(***************************************************************************)
(* core/state.rs: EngineState and StateMachine                             *)
(***************************************************************************)
EngineStates == {"Normal", "Degraded", "Failover", "Recovery"}

LATENCY_HIGH_MS == 120
ERROR_RATE_HIGH == 50

\* An f32 error rate is a record: nan, or a value v in thousandths.
F32(v) == [nan |-> FALSE, v |-> v]
F32NaN == [nan |-> TRUE, v |-> 0]
f32_gt(a, b) == ~a.nan /\ a.v > b

\* transition with the latency threshold itself counted as high
transition_ge(state, latency_ms, error_rate) ==
    LET latency_high == unwrap_or(latency_ms, 0) >= LATENCY_HIGH_MS
        error_high == f32_gt(unwrap_or(error_rate, F32(0)), ERROR_RATE_HIGH)
    IN CASE state = "Normal" ->
              IF latency_high \/ error_high THEN "Degraded" ELSE "Normal"
         [] state = "Degraded" ->
              IF latency_high \/ error_high THEN "Failover" ELSE "Recovery"
         [] state = "Failover" ->
              IF latency_high \/ error_high THEN "Failover" ELSE "Recovery"
         [] state = "Recovery" ->
              IF latency_high \/ error_high THEN "Degraded" ELSE "Normal"

\* StateMachine::transition: the new value of self.state
transition(state, latency_ms, error_rate) ==
    LET latency_high == unwrap_or(latency_ms, 0) > LATENCY_HIGH_MS
        error_high == f32_gt(unwrap_or(error_rate, F32(0)), ERROR_RATE_HIGH)
    IN CASE state = "Normal" ->
              IF latency_high \/ error_high THEN "Degraded" ELSE "Normal"
         [] state = "Degraded" ->
              IF latency_high \/ error_high THEN "Failover" ELSE "Recovery"
         [] state = "Failover" ->
              IF latency_high \/ error_high THEN "Failover" ELSE "Recovery"
         [] state = "Recovery" ->
              IF latency_high \/ error_high THEN "Degraded" ELSE "Normal"

\* observations offered to the state machine
LatencyInputs == {None, Some(0), Some(119), Some(120), Some(121), Some(200)}
ErrorRateInputs ==
    {None, Some(F32(0)), Some(F32(50)), Some(F32(51)), Some(F32(1000)),
     Some(F32(-1)), Some(F32NaN)}

\* StateMachine::new
SmNew ==
    /\ sm_state = "Normal"
    /\ sm_op = "new"
    /\ sm_prev = "Normal"
    /\ sm_latency = None
    /\ sm_error = None

SmSetState(s) ==
    /\ sm_state' = s
    /\ sm_op' = "set_state"
    /\ sm_prev' = sm_state
    /\ sm_latency' = None
    /\ sm_error' = None
    /\ UNCHANGED <<ruleVars, portVars, sniVars, daemonVars>>

SmTransition(latency_ms, error_rate) ==
    /\ sm_state' = transition(sm_state, latency_ms, error_rate)
    /\ sm_op' = "transition"
    /\ sm_prev' = sm_state
    /\ sm_latency' = latency_ms
    /\ sm_error' = error_rate
    /\ UNCHANGED <<ruleVars, portVars, sniVars, daemonVars>>

(***************************************************************************)
(* core/rules.rs: the rule model and its validators                        *)
(***************************************************************************)
\* StateSelector::Single(s) and StateSelector::Many(list)
Single(s) == [tag |-> "Single", s |-> s]
Many(list) == [tag |-> "Many", list |-> list]

Match(any, sni, protocol, port, latency_ms, rtt_ms) ==
    [any |-> any, sni |-> sni, protocol |-> protocol, port |-> port,
     latency_ms |-> latency_ms, rtt_ms |-> rtt_ms]
\* Match::default()
MatchDefault == Match(None, None, None, None, None, None)

Action(route, switch_route, block, throttle, log) ==
    [route |-> route, switch_route |-> switch_route, block |-> block,
     throttle |-> throttle, log |-> log]

\* RuleWhen { state }
RuleWhen(state) == [state |-> state]

Rule(name, priority, m, when, disable, action) ==
    [name |-> name, priority |-> priority, match |-> m, when |-> when,
     disable |-> disable, action |-> action]

OkUnit == Ok("unit")

StateNames ==
    { <<"N","O","R","M","A","L">>, <<"D","E","G","R","A","D","E","D">>,
      <<"F","A","I","L","O","V","E","R">>, <<"R","E","C","O","V","E","R","Y">> }

validate_state_value(value) ==
    LET normalized == to_uppercase(trim(value)) IN
    IF normalized \in StateNames THEN OkUnit
    ELSE Err("Invalid", "invalid state value")

\* the first error among the results rs, OkUnit when there is none
RECURSIVE first_error(_)
first_error(rs) ==
    IF rs = <<>> THEN OkUnit
    ELSE IF ~Head(rs).ok THEN Head(rs)
    ELSE first_error(Tail(rs))

validate_state_selector(selector) ==
    IF selector.tag = "Single" THEN validate_state_value(selector.s)
    ELSE IF selector.list = <<>>
         THEN Err("Invalid", "state list must not be empty")
         ELSE first_error([i \in 1..Len(selector.list) |->
                              validate_state_value(selector.list[i])])

\* one entry of the loop of validate_port_pattern
validate_port_entry(entry) ==
    LET token == trim(entry)
        range == split_once(token, "-")
    IN IF token = <<>>
       THEN Err("Invalid", "port pattern must not contain empty entries")
       ELSE IF is_some(range)
       THEN LET start == parse_u16(trim(unwrap(range)[1]))
                end == parse_u16(trim(unwrap(range)[2]))
            IN IF start = None THEN Err("Invalid", "invalid port range start")
               ELSE IF end = None THEN Err("Invalid", "invalid port range end")
               ELSE IF unwrap(start) > unwrap(end)
               THEN Err("Invalid", "invalid port range (start > end)")
               ELSE OkUnit
       ELSE IF parse_u16(token) = None
            THEN Err("Invalid", "invalid port value")
            ELSE OkUnit

validate_port_pattern(value) ==
    LET entries == split(value, ",") IN
    first_error([i \in 1..Len(entries) |-> validate_port_entry(entries[i])])

validate_match(m) ==
    IF m.any = Some(TRUE) THEN OkUnit
    ELSE LET has_any == \/ is_some(m.sni)
                        \/ is_some(m.protocol)
                        \/ is_some(m.port)
                        \/ is_some(m.latency_ms)
                        \/ is_some(m.rtt_ms)
         IN IF ~has_any
            THEN Err("Invalid", "match must contain at least one field or any: true")
            ELSE IF is_some(m.port) THEN validate_port_pattern(unwrap(m.port))
            ELSE OkUnit

\* the primary array of validate_action
primary_flags(a) ==
    <<is_some(a.route), is_some(a.switch_route), a.block = Some(TRUE),
      is_some(a.throttle)>>

\* validate_action without the check for a missing primary
validate_action_allows_none(a) ==
    LET primary == primary_flags(a)
        primary_count == Cardinality({i \in 1..Len(primary) : primary[i]})
    IN IF primary_count > 1
       THEN Err("Invalid", "action must not include multiple primary actions")
       ELSE OkUnit

validate_action(a) ==
    LET primary == primary_flags(a)
        primary_count == Cardinality({i \in 1..Len(primary) : primary[i]})
    IN IF primary_count = 0
       THEN Err("Invalid", "action must include one primary action")
       ELSE IF primary_count > 1
       THEN Err("Invalid", "action must not include multiple primary actions")
       ELSE OkUnit

validate_rule(rule) ==
    IF trim(rule.name) = <<>> THEN Err("Invalid", "rule name is required")
    ELSE IF rule.priority < 0 THEN Err("Invalid", "priority must be >= 0")
    ELSE LET w == IF is_some(rule.when) /\ is_some(unwrap(rule.when).state)
                  THEN validate_state_selector(unwrap(unwrap(rule.when).state))
                  ELSE OkUnit
             d == IF is_some(rule.disable)
                  THEN validate_state_selector(unwrap(rule.disable))
                  ELSE OkUnit
         IN first_error(<<w, d, validate_match(rule.match),
                          validate_action(rule.action)>>)

\* a RuleSet is the sequence of its rules
validate_ruleset(rules) ==
    IF rules = <<>> THEN Err("Invalid", "rules must not be empty")
    ELSE first_error([i \in 1..Len(rules) |-> validate_rule(rules[i])])

\* A YAML text is modelled by what serde_yaml::from_str makes of it: a decode
\* failure, or the decoded rules.
YamlBad == [decoded |-> FALSE, rules |-> <<>>]
YamlDoc(rules) == [decoded |-> TRUE, rules |-> rules]

parse_ruleset(yaml) ==
    IF ~yaml.decoded THEN Err("Yaml", "decode")
    ELSE LET v == validate_ruleset(yaml.rules) IN
         IF ~v.ok THEN v ELSE Ok(yaml.rules)

(***************************************************************************)
(* core/engine.rs: the decision engine                                     *)
(***************************************************************************)
MatchContext(sni, protocol, port, latency_ms, rtt_ms) ==
    [sni |-> sni, protocol |-> protocol, port |-> port,
     latency_ms |-> latency_ms, rtt_ms |-> rtt_ms]
\* MatchContext::default()
MatchContextDefault == MatchContext(None, None, None, None, None)

state_to_str(state) ==
    CASE state = "Normal" -> <<"N","O","R","M","A","L">>
      [] state = "Degraded" -> <<"D","E","G","R","A","D","E","D">>
      [] state = "Failover" -> <<"F","A","I","L","O","V","E","R">>
      [] state = "Recovery" -> <<"R","E","C","O","V","E","R","Y">>

normalize_state(value) == to_uppercase(trim(value))

selector_contains_state(selector, state) ==
    LET state_name == state_to_str(state) IN
    IF selector.tag = "Single" THEN normalize_state(selector.s) = state_name
    ELSE \E i \in 1..Len(selector.list) :
            normalize_state(selector.list[i]) = state_name

\* rule_applies_state with the when selector consulted before disable
rule_applies_state_when_first(rule, state) ==
    IF is_some(rule.when) /\ is_some(unwrap(rule.when).state)
    THEN selector_contains_state(unwrap(unwrap(rule.when).state), state)
    ELSE IF is_some(rule.disable)
            /\ selector_contains_state(unwrap(rule.disable), state)
    THEN FALSE
    ELSE TRUE

rule_applies_state(rule, state) ==
    IF is_some(rule.disable) /\ selector_contains_state(unwrap(rule.disable), state)
    THEN FALSE
    ELSE IF is_some(rule.when) /\ is_some(unwrap(rule.when).state)
    THEN selector_contains_state(unwrap(unwrap(rule.when).state), state)
    ELSE TRUE

match_sni(pattern0, value0) ==
    IF value0 = None THEN FALSE
    ELSE LET value == to_lowercase(unwrap(value0))
             pattern == to_lowercase(pattern0)
         IN IF pattern = <<"*">> THEN TRUE
            ELSE IF is_some(strip_prefix(pattern, <<"*", ".">>))
            THEN ends_with(value, unwrap(strip_prefix(pattern, <<"*", ".">>)))
            ELSE IF is_some(strip_prefix(pattern, <<"*">>))
            THEN ends_with(value, unwrap(strip_prefix(pattern, <<"*">>)))
            ELSE IF is_some(strip_suffix(pattern, <<"*">>))
            THEN starts_with(value, unwrap(strip_suffix(pattern, <<"*">>)))
            ELSE value = pattern

\* match_port_entry with the upper bound of a range excluded
match_port_entry_exclusive(entry, port) ==
    LET token == trim(entry)
        range == split_once(token, "-")
    IN IF token = <<>> THEN FALSE
       ELSE IF is_some(range)
       THEN LET start == parse_u16(trim(unwrap(range)[1]))
                end == parse_u16(trim(unwrap(range)[2]))
            IN IF start = None THEN FALSE
               ELSE IF end = None THEN FALSE
               ELSE unwrap(start) <= port /\ port < unwrap(end)
       ELSE LET value == parse_u16(token) IN
            is_some(value) /\ unwrap(value) = port

\* one entry of the loop of match_port: TRUE when the entry returns true,
\* FALSE when the loop goes on to the next entry
match_port_entry(entry, port) ==
    LET token == trim(entry)
        range == split_once(token, "-")
    IN IF token = <<>> THEN FALSE
       ELSE IF is_some(range)
       THEN LET start == parse_u16(trim(unwrap(range)[1]))
                end == parse_u16(trim(unwrap(range)[2]))
            IN IF start = None THEN FALSE
               ELSE IF end = None THEN FALSE
               ELSE unwrap(start) <= port /\ port <= unwrap(end)
       ELSE LET value == parse_u16(token) IN
            is_some(value) /\ unwrap(value) = port

RECURSIVE match_port_loop(_, _)
match_port_loop(entries, port) ==
    IF entries = <<>> THEN FALSE
    ELSE IF match_port_entry(Head(entries), port) THEN TRUE
    ELSE match_port_loop(Tail(entries), port)

match_port(pattern, port) == match_port_loop(split(pattern, ","), port)

U32MaxDigits == <<"4","2","9","4","9","6","7","2","9","5">>
RECURSIVE strip_leading_zeros(_)
strip_leading_zeros(s) ==
    IF Len(s) > 1 /\ Head(s) = "0" THEN strip_leading_zeros(Tail(s)) ELSE s
\* a <= b for digit strings of the same length
RECURSIVE digits_le(_, _)
digits_le(a, b) ==
    IF a = <<>> THEN TRUE
    ELSE IF digit_value(Head(a)) # digit_value(Head(b))
    THEN digit_value(Head(a)) < digit_value(Head(b))
    ELSE digits_le(Tail(a), Tail(b))
\* str::parse::<u32>(). The machine integers here end at I32_MAX: a value
\* between I32_MAX and u32::MAX is accepted and returned as I32_MAX, which
\* compares like the true value against every context value below I32_MAX.
parse_u32(s) ==
    LET body == IF s # <<>> /\ Head(s) = "+" THEN Tail(s) ELSE s IN
    IF ~all_digits(body) THEN None
    ELSE LET d == strip_leading_zeros(body) IN
         IF Len(d) > Len(U32MaxDigits)
            \/ (Len(d) = Len(U32MaxDigits) /\ ~digits_le(d, U32MaxDigits))
         THEN None
         ELSE LET v == digits_value(d, 0, I32_MAX) IN
              Some(IF v < 0 THEN I32_MAX ELSE v)

parse_comparator(expr) ==
    LET trimmed == trim(expr)
        ge == strip_prefix(trimmed, <<">", "=">>)
        le == strip_prefix(trimmed, <<"<", "=">>)
        gt == strip_prefix(trimmed, <<">">>)
        lt == strip_prefix(trimmed, <<"<">>)
        eqeq == strip_prefix(trimmed, <<"=", "=">>)
        eq == strip_prefix(trimmed, <<"=">>)
        found == IF is_some(ge) THEN Some(<<"Gte", unwrap(ge)>>)
                 ELSE IF is_some(le) THEN Some(<<"Lte", unwrap(le)>>)
                 ELSE IF is_some(gt) THEN Some(<<"Gt", unwrap(gt)>>)
                 ELSE IF is_some(lt) THEN Some(<<"Lt", unwrap(lt)>>)
                 ELSE IF is_some(eqeq) THEN Some(<<"Eq", unwrap(eqeq)>>)
                 ELSE IF is_some(eq) THEN Some(<<"Eq", unwrap(eq)>>)
                 ELSE None
    IN IF found = None THEN None
       ELSE LET value == parse_u32(trim(unwrap(found)[2])) IN
            IF value = None THEN None
            ELSE Some(<<unwrap(found)[1], unwrap(value)>>)

compare_numeric(expr0, value) ==
    LET parsed == parse_comparator(trim(expr0)) IN
    IF parsed = None THEN FALSE
    ELSE LET op == unwrap(parsed)[1]
             rhs == unwrap(parsed)[2]
         IN CASE op = "Gt" -> value > rhs
              [] op = "Gte" -> value >= rhs
              [] op = "Lt" -> value < rhs
              [] op = "Lte" -> value <= rhs
              [] op = "Eq" -> value = rhs

rule_matches(m, ctx) ==
    IF m.any = Some(TRUE) THEN TRUE
    ELSE IF is_some(m.sni) /\ ~match_sni(unwrap(m.sni), ctx.sni) THEN FALSE
    ELSE IF is_some(m.protocol)
            /\ (ctx.protocol = None
                \/ to_lowercase(unwrap(m.protocol)) # to_lowercase(unwrap(ctx.protocol)))
    THEN FALSE
    ELSE IF is_some(m.port)
            /\ (ctx.port = None \/ ~match_port(unwrap(m.port), unwrap(ctx.port)))
    THEN FALSE
    ELSE IF is_some(m.latency_ms)
            /\ (ctx.latency_ms = None
                \/ ~compare_numeric(unwrap(m.latency_ms), unwrap(ctx.latency_ms)))
    THEN FALSE
    ELSE IF is_some(m.rtt_ms)
            /\ (ctx.rtt_ms = None
                \/ ~compare_numeric(unwrap(m.rtt_ms), unwrap(ctx.rtt_ms)))
    THEN FALSE
    ELSE TRUE

\* the number of true values among the flags
count_true(flags) == Cardinality({i \in 1..Len(flags) : flags[i]})

\* specificity without the early return for any: true
specificity_counts_wildcard(rule) ==
    LET m == rule.match IN
    count_true(<<is_some(m.sni), is_some(m.protocol), is_some(m.port),
                 is_some(m.latency_ms), is_some(m.rtt_ms)>>)

specificity(rule) ==
    LET m == rule.match IN
    IF m.any = Some(TRUE) THEN 0
    ELSE count_true(<<is_some(m.sni), is_some(m.protocol), is_some(m.port),
                      is_some(m.latency_ms), is_some(m.rtt_ms)>>)

\* compare_rule with a tie reported as "greater"
compare_rule_tie_wins(a, b) ==
    IF a.priority # b.priority
    THEN (IF a.priority > b.priority THEN 1 ELSE -1)
    ELSE IF specificity(a) >= specificity(b) THEN 1 ELSE -1

compare_rule(a, b) ==
    IF a.priority # b.priority
    THEN (IF a.priority > b.priority THEN 1 ELSE -1)
    ELSE LET a_spec == specificity(a)
             b_spec == specificity(b)
         IN IF a_spec > b_spec THEN 1
            ELSE IF a_spec < b_spec THEN -1
            ELSE 0

\* the loop without the state gate
RECURSIVE evaluate_loop_no_gate(_, _, _, _, _)
evaluate_loop_no_gate(rules, i, best, ctx, state) ==
    IF i > Len(rules) THEN best
    ELSE IF ~rule_matches(rules[i].match, ctx)
    THEN evaluate_loop_no_gate(rules, i + 1, best, ctx, state)
    ELSE LET better == IF best = None THEN TRUE
                       ELSE compare_rule(rules[i], rules[unwrap(best)]) > 0
         IN evaluate_loop_no_gate(rules, i + 1, IF better THEN Some(i) ELSE best,
                                  ctx, state)

\* the loop leaving at the first rule that does not match (break for continue)
RECURSIVE evaluate_loop_break(_, _, _, _, _)
evaluate_loop_break(rules, i, best, ctx, state) ==
    IF i > Len(rules) THEN best
    ELSE IF ~rule_applies_state(rules[i], state)
    THEN evaluate_loop_break(rules, i + 1, best, ctx, state)
    ELSE IF ~rule_matches(rules[i].match, ctx)
    THEN best
    ELSE LET better == IF best = None THEN TRUE
                       ELSE compare_rule(rules[i], rules[unwrap(best)]) > 0
         IN evaluate_loop_break(rules, i + 1, IF better THEN Some(i) ELSE best,
                                ctx, state)

\* the for loop of evaluate_ruleset from rule i on; best is None or Some(the
\* index of the rule `best` refers to)
RECURSIVE evaluate_loop(_, _, _, _, _)
evaluate_loop(rules, i, best, ctx, state) ==
    IF i > Len(rules) THEN best
    ELSE IF ~rule_applies_state(rules[i], state)
    THEN evaluate_loop(rules, i + 1, best, ctx, state)
    ELSE IF ~rule_matches(rules[i].match, ctx)
    THEN evaluate_loop(rules, i + 1, best, ctx, state)
    ELSE LET better == IF best = None THEN TRUE
                       ELSE compare_rule(rules[i], rules[unwrap(best)]) > 0
         IN evaluate_loop(rules, i + 1, IF better THEN Some(i) ELSE best,
                          ctx, state)

\* EngineDecision: rule is the reference into the ruleset (an index), action
\* the action that reference leads to
evaluate_ruleset(rules, ctx, state) ==
    IF rules = <<>> THEN Err("Invalid", "rules must not be empty")
    ELSE LET best == evaluate_loop(rules, 1, None, ctx, state) IN
         IF is_some(best)
         THEN Ok([kind |-> "Action", rule |-> best,
                  action |-> Some(rules[unwrap(best)].action)])
         ELSE Ok([kind |-> "NoMatch", rule |-> None, action |-> None])

(***************************************************************************)
(* core/dsl.rs: the rule DSL                                               *)
(***************************************************************************)
\* the directive and token literals of the DSL
Kw ==
    [Rule |-> <<"r","u","l","e"," ">>,
     Priority |-> <<"p","r","i","o","r","i","t","y"," ">>,
     Match |-> <<"m","a","t","c","h"," ">>,
     Action |-> <<"a","c","t","i","o","n"," ">>,
     When |-> <<"w","h","e","n"," ">>,
     Disable |-> <<"d","i","s","a","b","l","e"," ">>,
     StateEq |-> <<"s","t","a","t","e","=">>,
     Any |-> <<"a","n","y">>,
     AnyTrue |-> <<"a","n","y","=","t","r","u","e">>,
     Block |-> <<"b","l","o","c","k">>,
     BlockTrue |-> <<"b","l","o","c","k","=","t","r","u","e">>,
     Log |-> <<"l","o","g">>,
     LogTrue |-> <<"l","o","g","=","t","r","u","e">>,
     True |-> <<"t","r","u","e">>]
\* the keys of match and action tokens
Key ==
    [Sni |-> <<"s","n","i">>,
     Protocol |-> <<"p","r","o","t","o","c","o","l">>,
     Port |-> <<"p","o","r","t">>,
     LatencyMs |-> <<"l","a","t","e","n","c","y","_","m","s">>,
     RttMs |-> <<"r","t","t","_","m","s">>,
     Route |-> <<"r","o","u","t","e">>,
     SwitchRoute |-> <<"s","w","i","t","c","h","_","r","o","u","t","e">>,
     Throttle |-> <<"t","h","r","o","t","t","l","e">>]
I32MinText == <<"-","2","1","4","7","4","8","3","6","4","8">>

\* str::trim_start_matches(p): p removed from the front as often as it occurs
RECURSIVE trim_start_matches(_, _)
trim_start_matches(s, p) ==
    IF starts_with(s, p)
    THEN trim_start_matches(SubSeq(s, Len(p) + 1, Len(s)), p)
    ELSE s
\* str::trim_end_matches(c) for a character c
RECURSIVE trim_end_matches(_, _)
trim_end_matches(s, c) ==
    IF s # <<>> /\ s[Len(s)] = c
    THEN trim_end_matches(SubSeq(s, 1, Len(s) - 1), c)
    ELSE s
\* str::split_whitespace(): the maximal runs of non-whitespace characters
RECURSIVE split_whitespace(_)
split_whitespace(s) ==
    LET t == trim_start(s) IN
    IF t = <<>> THEN <<>>
    ELSE LET k == IF \E i \in 1..Len(t) : is_whitespace(t[i])
                  THEN CHOOSE i \in 1..Len(t) :
                          is_whitespace(t[i]) /\ \A j \in 1..(i - 1) : ~is_whitespace(t[j])
                  ELSE Len(t) + 1
         IN <<SubSeq(t, 1, k - 1)>> \o split_whitespace(SubSeq(t, k, Len(t)))
\* [String].join(" ")
RECURSIVE join_space(_)
join_space(items) ==
    IF items = <<>> THEN <<>>
    ELSE IF Len(items) = 1 THEN items[1]
    ELSE items[1] \o <<" ">> \o join_space(Tail(items))

\* str::parse::<i32>(): an optional sign, then one or more decimal digits
parse_i32(s) ==
    IF s = I32MinText THEN Some(-I32_MAX - 1)
    ELSE LET neg == s # <<>> /\ Head(s) = "-"
             body == IF s # <<>> /\ Head(s) \in {"+", "-"} THEN Tail(s) ELSE s
         IN IF ~all_digits(body) THEN None
            ELSE LET v == digits_value(body, 0, I32_MAX) IN
                 IF v < 0 THEN None ELSE Some(IF neg THEN -v ELSE v)

\* A panic of the parser (an out-of-order slice index) ends the call with
\* neither Ok nor Err.
Panic == [ok |-> FALSE, kind |-> "Panic", line |-> 0, text |-> "slice index"]

\* strip_quotes: Ok(the value), or the panic of value[1..value.len() - 1]
\* on a value that is one quote character
strip_quotes(value0) ==
    LET value == trim(value0) IN
    IF \/ (starts_with(value, <<"\"">>) /\ ends_with(value, <<"\"">>))
       \/ (starts_with(value, <<"'">>) /\ ends_with(value, <<"'">>))
    THEN (IF Len(value) < 2 THEN Panic ELSE Ok(SubSeq(value, 2, Len(value) - 1)))
    ELSE Ok(value)

\* the token loop of parse_match_line: Ok(the updated Match) or the error
RECURSIVE parse_match_tokens(_, _, _)
parse_match_tokens(tokens, target, line_no) ==
    IF tokens = <<>> THEN Ok(target)
    ELSE LET token == Head(tokens)
             kv == split_once(token, "=")
         IN IF token = Kw.Any \/ token = Kw.AnyTrue
            THEN parse_match_tokens(Tail(tokens),
                                    [target EXCEPT !.any = Some(TRUE)], line_no)
            ELSE IF kv = None
            THEN ErrAt("Invalid", line_no, "invalid match token")
            ELSE LET key == unwrap(kv)[1]
                     value == strip_quotes(unwrap(kv)[2])
                 IN IF ~value.ok THEN value
                    ELSE IF key = Key.Sni
                    THEN parse_match_tokens(Tail(tokens),
                            [target EXCEPT !.sni = Some(value.value)], line_no)
                    ELSE IF key = Key.Protocol
                    THEN parse_match_tokens(Tail(tokens),
                            [target EXCEPT !.protocol = Some(value.value)], line_no)
                    ELSE IF key = Key.Port
                    THEN parse_match_tokens(Tail(tokens),
                            [target EXCEPT !.port = Some(value.value)], line_no)
                    ELSE IF key = Key.LatencyMs
                    THEN parse_match_tokens(Tail(tokens),
                            [target EXCEPT !.latency_ms = Some(value.value)], line_no)
                    ELSE IF key = Key.RttMs
                    THEN parse_match_tokens(Tail(tokens),
                            [target EXCEPT !.rtt_ms = Some(value.value)], line_no)
                    ELSE ErrAt("Invalid", line_no, "unknown match key")

parse_match_line(line, target, line_no) ==
    LET rest == trim(trim_start_matches(line, Kw.Match)) IN
    IF rest = <<>> THEN ErrAt("Invalid", line_no, "match needs fields")
    ELSE parse_match_tokens(split_whitespace(rest), target, line_no)

\* the token loop of parse_action_line: Ok(the updated Action) or the error
RECURSIVE parse_action_tokens(_, _, _)
parse_action_tokens(tokens, target, line_no) ==
    IF tokens = <<>> THEN Ok(target)
    ELSE LET token == Head(tokens)
             kv == split_once(token, "=")
         IN IF token = Kw.Block \/ token = Kw.BlockTrue
            THEN parse_action_tokens(Tail(tokens),
                                     [target EXCEPT !.block = Some(TRUE)], line_no)
            ELSE IF token = Kw.Log \/ token = Kw.LogTrue
            THEN parse_action_tokens(Tail(tokens),
                                     [target EXCEPT !.log = Some(TRUE)], line_no)
            ELSE IF kv = None
            THEN ErrAt("Invalid", line_no, "invalid action token")
            ELSE LET key == unwrap(kv)[1]
                     value == strip_quotes(unwrap(kv)[2])
                 IN IF ~value.ok THEN value
                    ELSE IF key = Key.Route
                    THEN parse_action_tokens(Tail(tokens),
                            [target EXCEPT !.route = Some(value.value)], line_no)
                    ELSE IF key = Key.SwitchRoute
                    THEN parse_action_tokens(Tail(tokens),
                            [target EXCEPT !.switch_route = Some(value.value)], line_no)
                    ELSE IF key = Key.Throttle
                    THEN parse_action_tokens(Tail(tokens),
                            [target EXCEPT !.throttle = Some(value.value)], line_no)
                    ELSE IF key = Kw.Log
                    THEN parse_action_tokens(Tail(tokens),
                            [target EXCEPT !.log = Some(value.value = Kw.True)], line_no)
                    ELSE ErrAt("Invalid", line_no, "unknown action key")

parse_action_line(line, target, line_no) ==
    LET rest == trim(trim_start_matches(line, Kw.Action)) IN
    IF rest = <<>> THEN ErrAt("Invalid", line_no, "action needs fields")
    ELSE parse_action_tokens(split_whitespace(rest), target, line_no)

\* the non-empty trimmed items of a comma-separated value
RECURSIVE trimmed_items(_)
trimmed_items(pieces) ==
    IF pieces = <<>> THEN <<>>
    ELSE (IF trim(Head(pieces)) = <<>> THEN <<>> ELSE <<trim(Head(pieces))>>)
         \o trimmed_items(Tail(pieces))

parse_state_selector(line, line_no) ==
    LET rest == join_space(Tail(split_whitespace(line)))
        value == trim(unwrap_or(strip_prefix(rest, Kw.StateEq), trim(rest)))
        items == trimmed_items(split(value, ","))
    IN IF value = <<>> THEN ErrAt("Invalid", line_no, "state value is required")
       ELSE IF Len(items) = 1 THEN Ok(Single(items[1]))
       ELSE Ok(Many(items))

\* the Rule a rule header opens
new_rule(name) ==
    Rule(name, 0, MatchDefault, None, None, Action(None, None, None, None, None))

\* the end of parse_dsl, after the line loop
parse_dsl_finish(rules0, current) ==
    LET rules == IF is_some(current) THEN Append(rules0, unwrap(current)) ELSE rules0
        v == validate_ruleset(rules)
    IN IF rules = <<>> THEN Err("Invalid", "no rules defined")
       ELSE IF ~v.ok THEN [v EXCEPT !.kind = "Invalid"]
       ELSE Ok(rules)

\* the line loop of parse_dsl from the 0-based index idx on
RECURSIVE parse_dsl_loop(_, _, _, _)
parse_dsl_loop(lines, idx, rules, current) ==
    IF idx >= Len(lines) THEN parse_dsl_finish(rules, current)
    ELSE
    LET line == trim(lines[idx + 1])
        rule == unwrap(current)
    IN
    IF line = <<>> \/ starts_with(line, <<"#">>)
    THEN parse_dsl_loop(lines, idx + 1, rules, current)
    ELSE IF starts_with(line, Kw.Rule)
    THEN LET pushed == IF is_some(current) THEN Append(rules, rule) ELSE rules
             name == trim(trim_end_matches(trim_start_matches(line, Kw.Rule), ":"))
         IN IF name = <<>>
            THEN ErrAt("Invalid", idx + 1, "rule name is required")
            ELSE parse_dsl_loop(lines, idx + 1, pushed, Some(new_rule(name)))
    ELSE IF current = None
    THEN ErrAt("Invalid", idx + 1, "content must be inside a rule block")
    ELSE IF starts_with(line, Kw.Priority)
    THEN LET parsed == parse_i32(trim(trim_start_matches(line, Kw.Priority))) IN
         IF parsed = None THEN ErrAt("Invalid", idx + 1, "invalid priority")
         ELSE parse_dsl_loop(lines, idx + 1, rules,
                             Some([rule EXCEPT !.priority = unwrap(parsed)]))
    ELSE IF starts_with(line, Kw.Match)
    THEN LET m == parse_match_line(line, rule.match, idx + 1) IN
         IF ~m.ok THEN m
         ELSE parse_dsl_loop(lines, idx + 1, rules,
                             Some([rule EXCEPT !.match = m.value]))
    ELSE IF starts_with(line, Kw.Action)
    THEN LET a == parse_action_line(line, rule.action, idx + 1) IN
         IF ~a.ok THEN a
         ELSE parse_dsl_loop(lines, idx + 1, rules,
                             Some([rule EXCEPT !.action = a.value]))
    ELSE IF starts_with(line, Kw.When)
    THEN LET sel == parse_state_selector(line, idx + 1) IN
         IF ~sel.ok THEN sel
         ELSE parse_dsl_loop(lines, idx + 1, rules,
                             Some([rule EXCEPT !.when = Some(RuleWhen(Some(sel.value)))]))
    ELSE IF starts_with(line, Kw.Disable)
    THEN LET sel == parse_state_selector(line, idx + 1) IN
         IF ~sel.ok THEN sel
         ELSE parse_dsl_loop(lines, idx + 1, rules,
                             Some([rule EXCEPT !.disable = Some(sel.value)]))
    ELSE ErrAt("Invalid", idx + 1, "unknown directive")

\* parse_dsl numbering the lines that are neither blank nor comments
is_content(line) == trim(line) # <<>> /\ ~starts_with(trim(line), <<"#">>)
parse_dsl_content_numbered(lines) ==
    parse_dsl_loop(SelectSeq(lines, is_content), 0, <<>>, None)

\* the input text is the sequence of its lines (str::lines)
parse_dsl(lines) == parse_dsl_loop(lines, 0, <<>>, None)

(***************************************************************************)
(* core/xray.rs: the proxy-link codec                                      *)
(***************************************************************************)
\* ProxyNode; every field but tag, protocol, server, port and tls is an Option
ProxyNodeDefault ==
    [tag |-> <<>>, protocol |-> <<>>, server |-> <<>>, port |-> 0,
     uuid |-> None, password |-> None, username |-> None, method |-> None,
     plugin |-> None, plugin_opts |-> None, security |-> None, grpc_service |-> None,
     h2_path |-> None, h2_host |-> None, reality_public_key |-> None,
     reality_short_id |-> None, fingerprint |-> None, network |-> None,
     tls |-> FALSE, sni |-> None, ws_path |-> None, ws_host |-> None]

Proto ==
    [vmess |-> <<"v","m","e","s","s">>, vless |-> <<"v","l","e","s","s">>, trojan |-> <<"t","r","o","j","a","n">>,
     shadowsocks |-> <<"s","h","a","d","o","w","s","o","c","k","s">>, socks |-> <<"s","o","c","k","s">>, http |-> <<"h","t","t","p">>]
SecurityTls == <<"t","l","s">>
SecurityReality == <<"r","e","a","l","i","t","y">>

is_ascii_hexdigit(c) == is_digit(c) \/ c \in {"a","b","c","d","e","f","A","B","C","D","E","F"}
is_ascii_alphanumeric(c) ==
    is_digit(c) \/ \E i \in 1..Len(LowerAlpha) : c \in {LowerAlpha[i], UpperAlpha[i]}

\* valid_uuid: the checks run on the lower-cased value
valid_uuid(value) ==
    LET lower == to_lowercase(value) IN
    /\ Len(lower) = 36
    /\ \A i \in 1..Len(lower) :
          IF (i - 1) \in {8, 13, 18, 23} THEN lower[i] = "-"
          ELSE is_digit(lower[i]) \/ lower[i] \in {"a","b","c","d","e","f"}

valid_password(value) ==
    /\ trim(value) # <<>>
    /\ ~\E i \in 1..Len(value) : is_whitespace(value[i])

REALITY_PBK_MIN == 43
REALITY_PBK_MAX == 64
valid_reality_public_key(value) ==
    /\ Len(value) >= REALITY_PBK_MIN /\ Len(value) <= REALITY_PBK_MAX
    /\ \A i \in 1..Len(value) :
          is_ascii_alphanumeric(value[i]) \/ value[i] \in {"-", "_", "="}

valid_reality_short_id(value) ==
    /\ Len(value) \in {8, 16}
    /\ \A i \in 1..Len(value) : is_ascii_hexdigit(value[i])

\* the share-URIs used as inputs
Uri ==
    [VlessGood |-> <<"v","l","e","s","s",":","/","/","1","2","3","e","4","5","6","7","-","e","8","9","b","-","1","2","d","3","-","a","4","5","6","-","4","2","6","6","1","4","1","7","4","0","0","0","@","e","x","a","m","p","l","e",".","c","o","m",":","4","4","3","?","t","y","p","e","=","w","s","&","s","e","c","u","r","i","t","y","=","t","l","s","&","s","n","i","=","e","x","a","m","p","l","e",".","c","o","m","&","p","a","t","h","=","%","2","F","w","s","#","T","e","s","t">>,
     VlessUpperUuid |-> <<"v","l","e","s","s",":","/","/","1","2","3","E","4","5","6","7","-","E","8","9","B","-","1","2","D","3","-","A","4","5","6","-","4","2","6","6","1","4","1","7","4","0","0","0","@","e","x","a","m","p","l","e",".","c","o","m",":","4","4","3","?","s","e","c","u","r","i","t","y","=","t","l","s">>,
     VlessUpperTls |-> <<"v","l","e","s","s",":","/","/","1","2","3","e","4","5","6","7","-","e","8","9","b","-","1","2","d","3","-","a","4","5","6","-","4","2","6","6","1","4","1","7","4","0","0","0","@","e","x","a","m","p","l","e",".","c","o","m",":","4","4","3","?","s","e","c","u","r","i","t","y","=","T","L","S","&","s","n","i","=","a",".","b","#","U","p">>,
     VlessRealityNoKeys |-> <<"v","l","e","s","s",":","/","/","1","2","3","e","4","5","6","7","-","e","8","9","b","-","1","2","d","3","-","a","4","5","6","-","4","2","6","6","1","4","1","7","4","0","0","0","@","r","e","a","l","i","t","y",".","e","x","a","m","p","l","e",".","c","o","m",":","4","4","3","?","s","e","c","u","r","i","t","y","=","r","e","a","l","i","t","y","&","s","n","i","=","e","x","a","m","p","l","e",".","c","o","m","#","N","o","K","e","y","s">>,
     VlessRealityGood |-> <<"v","l","e","s","s",":","/","/","1","2","3","e","4","5","6","7","-","e","8","9","b","-","1","2","d","3","-","a","4","5","6","-","4","2","6","6","1","4","1","7","4","0","0","0","@","r","e","a","l","i","t","y",".","e","x","a","m","p","l","e",".","c","o","m",":","4","4","3","?","s","e","c","u","r","i","t","y","=","r","e","a","l","i","t","y","&","p","b","k","=","A","A","A","A","A","A","A","A","A","A","A","A","A","A","A","A","A","A","A","A","b","_","-","9","Z","Z","Z","Z","Z","Z","Z","Z","Z","Z","Z","Z","Z","Z","Z","Z","Z","Z","Z","&","s","i","d","=","0","a","1","B","2","c","3","D","&","t","y","p","e","=","g","r","p","c","&","s","e","r","v","i","c","e","N","a","m","e","=","g","#","R">>,
     VlessRealityPbkOnly |-> <<"v","l","e","s","s",":","/","/","1","2","3","e","4","5","6","7","-","e","8","9","b","-","1","2","d","3","-","a","4","5","6","-","4","2","6","6","1","4","1","7","4","0","0","0","@","r","e","a","l","i","t","y",".","e","x","a","m","p","l","e",".","c","o","m",":","4","4","3","?","s","e","c","u","r","i","t","y","=","r","e","a","l","i","t","y","&","p","b","k","=","A","A","A","A","A","A","A","A","A","A","A","A","A","A","A","A","A","A","A","A","b","_","-","9","Z","Z","Z","Z","Z","Z","Z","Z","Z","Z","Z","Z","Z","Z","Z","Z","Z","Z","Z">>,
     VlessRealityBadSid |-> <<"v","l","e","s","s",":","/","/","1","2","3","e","4","5","6","7","-","e","8","9","b","-","1","2","d","3","-","a","4","5","6","-","4","2","6","6","1","4","1","7","4","0","0","0","@","r","e","a","l","i","t","y",".","e","x","a","m","p","l","e",".","c","o","m",":","4","4","3","?","s","e","c","u","r","i","t","y","=","r","e","a","l","i","t","y","&","p","b","k","=","A","A","A","A","A","A","A","A","A","A","A","A","A","A","A","A","A","A","A","A","b","_","-","9","Z","Z","Z","Z","Z","Z","Z","Z","Z","Z","Z","Z","Z","Z","Z","Z","Z","Z","Z","&","s","i","d","=","0","a","1","b","2">>,
     VlessBadUuid |-> <<"v","l","e","s","s",":","/","/","1","2","3","4","@","e","x","a","m","p","l","e",".","c","o","m",":","4","4","3">>,
     VlessPortZero |-> <<"v","l","e","s","s",":","/","/","1","2","3","e","4","5","6","7","-","e","8","9","b","-","1","2","d","3","-","a","4","5","6","-","4","2","6","6","1","4","1","7","4","0","0","0","@","e","x","a","m","p","l","e",".","c","o","m",":","0">>,
     VlessBadPort |-> <<"v","l","e","s","s",":","/","/","1","2","3","e","4","5","6","7","-","e","8","9","b","-","1","2","d","3","-","a","4","5","6","-","4","2","6","6","1","4","1","7","4","0","0","0","@","e","x","a","m","p","l","e",".","c","o","m",":","a","b","c">>,
     VlessRealityBadUuid |-> <<"v","l","e","s","s",":","/","/","1","2","3","4","@","r","e","a","l","i","t","y",".","e","x","a","m","p","l","e",".","c","o","m",":","4","4","3","?","s","e","c","u","r","i","t","y","=","r","e","a","l","i","t","y">>,
     TrojanDefault |-> <<"t","r","o","j","a","n",":","/","/","s","e","c","r","e","t","@","e","x","a","m","p","l","e",".","c","o","m",":","4","4","3","#","T">>,
     TrojanMixedTls |-> <<"t","r","o","j","a","n",":","/","/","s","e","c","r","e","t","@","e","x","a","m","p","l","e",".","c","o","m",":","4","4","3","?","s","e","c","u","r","i","t","y","=","T","l","s","&","t","y","p","e","=","h","2","&","h","o","s","t","=","h",".","e","x","a","m","p","l","e">>,
     TrojanNone |-> <<"t","r","o","j","a","n",":","/","/","s","e","c","r","e","t","@","e","x","a","m","p","l","e",".","c","o","m",":","4","4","3","?","s","e","c","u","r","i","t","y","=","n","o","n","e">>,
     Socks5Creds |-> <<"s","o","c","k","s","5",":","/","/","u","s","e","r",":","p","a","s","s","@","1","0",".","0",".","0",".","1",":","1","0","8","0","#","S">>,
     HttpsProxy |-> <<"h","t","t","p","s",":","/","/","p","r","o","x","y",".","l","o","c","a","l",":","8","4","4","3","#","H">>,
     HttpsDefaultPort |-> <<"h","t","t","p","s",":","/","/","p","r","o","x","y",".","l","o","c","a","l",":","4","4","3">>,
     VmessTls |-> <<"v","m","e","s","s",":","/","/","e","y","J","w","c","y","I","6","I","l","Z","N","I","i","w","i","Y","W","R","k","I","j","o","i","d","m","0","u","Z","X","h","h","b","X","B","s","Z","S","5","j","b","2","0","i","L","C","J","w","b","3","J","0","I","j","o","i","N","D","Q","z","I","i","w","i","a","W","Q","i","O","i","I","x","M","j","N","l","N","D","U","2","N","y","1","l","O","D","l","i","L","T","E","y","Z","D","M","t","Y","T","Q","1","N","i","0","0","M","j","Y","2","M","T","Q","x","N","z","Q","w","M","D","A","i","L","C","J","u","Z","X","Q","i","O","i","J","3","c","y","I","s","I","n","R","s","c","y","I","6","I","n","R","s","c","y","I","s","I","m","h","v","c","3","Q","i","O","i","J","o","L","m","V","4","Y","W","1","w","b","G","U","i","L","C","J","w","Y","X","R","o","I","j","o","i","L","3","Y","i","f","Q","=","=">>,
     VmessUpperTls |-> <<"v","m","e","s","s",":","/","/","e","y","J","h","Z","G","Q","i","O","i","J","2","b","S","5","l","e","G","F","t","c","G","x","l","L","m","N","v","b","S","I","s","I","n","B","v","c","n","Q","i","O","i","I","0","N","D","M","i","L","C","J","p","Z","C","I","6","I","j","E","y","M","2","U","0","N","T","Y","3","L","W","U","4","O","W","I","t","M","T","J","k","M","y","1","h","N","D","U","2","L","T","Q","y","N","j","Y","x","N","D","E","3","N","D","A","w","M","C","I","s","I","n","R","s","c","y","I","6","I","l","R","M","U","y","J","9">>,
     VmessEmptyJson |-> <<"v","m","e","s","s",":","/","/","e","3","0","=">>,
     VmessNotBase64 |-> <<"v","m","e","s","s",":","/","/","!","!","!">>,
     VmessNoPayload |-> <<"v","m","e","s","s",":","/","/">>,
     SsPlain |-> <<"s","s",":","/","/","a","e","s","-","2","5","6","-","g","c","m",":","p","w","@","h","o","s","t",".","e","x","a","m","p","l","e",":","8","3","8","8","?","p","l","u","g","i","n","=","o","b","f","s","%","3","B","h","t","t","p","#","S","S">>,
     SsEncoded |-> <<"s","s",":","/","/","Y","W","V","z","L","T","I","1","N","i","1","n","Y","2","0","6","c","H","d","A","a","G","9","z","d","C","5","l","e","G","F","t","c","G","x","l","O","j","g","z","O","D","g","=">>,
     SsNoMethod |-> <<"s","s",":","/","/",":","p","w","@","h","o","s","t",".","e","x","a","m","p","l","e",":","8","3","8","8">>,
     FtpUrl |-> <<"f","t","p",":","/","/","e","x","a","m","p","l","e",".","c","o","m",":","2","1">>,
     BlankUrl |-> <<" "," ">>]

\* Url::parse of the url crate: the result for each input it is applied to
\* (username, password, host_str, port, fragment, query_pairs); port is None
\* when absent or the default of a special scheme; any other text is an error
UrlBad == [ok |-> FALSE]
UrlOk(scheme, username, password, host, port, fragment, query) ==
    [ok |-> TRUE, scheme |-> scheme, username |-> username, password |-> password,
     host |-> host, port |-> port, fragment |-> fragment, query |-> query]
UrlTable ==
    {<<Uri.VlessGood, UrlOk(<<"v","l","e","s","s">>, <<"1","2","3","e","4","5","6","7","-","e","8","9","b","-","1","2","d","3","-","a","4","5","6","-","4","2","6","6","1","4","1","7","4","0","0","0">>, None, Some(<<"e","x","a","m","p","l","e",".","c","o","m">>), Some(443), Some(<<"T","e","s","t">>), <<<<<<"t","y","p","e">>, <<"w","s">>>>, <<<<"s","e","c","u","r","i","t","y">>, <<"t","l","s">>>>, <<<<"s","n","i">>, <<"e","x","a","m","p","l","e",".","c","o","m">>>>, <<<<"p","a","t","h">>, <<"/","w","s">>>>>>)>>,
     <<Uri.VlessUpperUuid, UrlOk(<<"v","l","e","s","s">>, <<"1","2","3","E","4","5","6","7","-","E","8","9","B","-","1","2","D","3","-","A","4","5","6","-","4","2","6","6","1","4","1","7","4","0","0","0">>, None, Some(<<"e","x","a","m","p","l","e",".","c","o","m">>), Some(443), None, <<<<<<"s","e","c","u","r","i","t","y">>, <<"t","l","s">>>>>>)>>,
     <<Uri.VlessUpperTls, UrlOk(<<"v","l","e","s","s">>, <<"1","2","3","e","4","5","6","7","-","e","8","9","b","-","1","2","d","3","-","a","4","5","6","-","4","2","6","6","1","4","1","7","4","0","0","0">>, None, Some(<<"e","x","a","m","p","l","e",".","c","o","m">>), Some(443), Some(<<"U","p">>), <<<<<<"s","e","c","u","r","i","t","y">>, <<"T","L","S">>>>, <<<<"s","n","i">>, <<"a",".","b">>>>>>)>>,
     <<Uri.VlessRealityNoKeys, UrlOk(<<"v","l","e","s","s">>, <<"1","2","3","e","4","5","6","7","-","e","8","9","b","-","1","2","d","3","-","a","4","5","6","-","4","2","6","6","1","4","1","7","4","0","0","0">>, None, Some(<<"r","e","a","l","i","t","y",".","e","x","a","m","p","l","e",".","c","o","m">>), Some(443), Some(<<"N","o","K","e","y","s">>), <<<<<<"s","e","c","u","r","i","t","y">>, <<"r","e","a","l","i","t","y">>>>, <<<<"s","n","i">>, <<"e","x","a","m","p","l","e",".","c","o","m">>>>>>)>>,
     <<Uri.VlessRealityGood, UrlOk(<<"v","l","e","s","s">>, <<"1","2","3","e","4","5","6","7","-","e","8","9","b","-","1","2","d","3","-","a","4","5","6","-","4","2","6","6","1","4","1","7","4","0","0","0">>, None, Some(<<"r","e","a","l","i","t","y",".","e","x","a","m","p","l","e",".","c","o","m">>), Some(443), Some(<<"R">>), <<<<<<"s","e","c","u","r","i","t","y">>, <<"r","e","a","l","i","t","y">>>>, <<<<"p","b","k">>, <<"A","A","A","A","A","A","A","A","A","A","A","A","A","A","A","A","A","A","A","A","b","_","-","9","Z","Z","Z","Z","Z","Z","Z","Z","Z","Z","Z","Z","Z","Z","Z","Z","Z","Z","Z">>>>, <<<<"s","i","d">>, <<"0","a","1","B","2","c","3","D">>>>, <<<<"t","y","p","e">>, <<"g","r","p","c">>>>, <<<<"s","e","r","v","i","c","e","N","a","m","e">>, <<"g">>>>>>)>>,
     <<Uri.VlessRealityPbkOnly, UrlOk(<<"v","l","e","s","s">>, <<"1","2","3","e","4","5","6","7","-","e","8","9","b","-","1","2","d","3","-","a","4","5","6","-","4","2","6","6","1","4","1","7","4","0","0","0">>, None, Some(<<"r","e","a","l","i","t","y",".","e","x","a","m","p","l","e",".","c","o","m">>), Some(443), None, <<<<<<"s","e","c","u","r","i","t","y">>, <<"r","e","a","l","i","t","y">>>>, <<<<"p","b","k">>, <<"A","A","A","A","A","A","A","A","A","A","A","A","A","A","A","A","A","A","A","A","b","_","-","9","Z","Z","Z","Z","Z","Z","Z","Z","Z","Z","Z","Z","Z","Z","Z","Z","Z","Z","Z">>>>>>)>>,
     <<Uri.VlessRealityBadSid, UrlOk(<<"v","l","e","s","s">>, <<"1","2","3","e","4","5","6","7","-","e","8","9","b","-","1","2","d","3","-","a","4","5","6","-","4","2","6","6","1","4","1","7","4","0","0","0">>, None, Some(<<"r","e","a","l","i","t","y",".","e","x","a","m","p","l","e",".","c","o","m">>), Some(443), None, <<<<<<"s","e","c","u","r","i","t","y">>, <<"r","e","a","l","i","t","y">>>>, <<<<"p","b","k">>, <<"A","A","A","A","A","A","A","A","A","A","A","A","A","A","A","A","A","A","A","A","b","_","-","9","Z","Z","Z","Z","Z","Z","Z","Z","Z","Z","Z","Z","Z","Z","Z","Z","Z","Z","Z">>>>, <<<<"s","i","d">>, <<"0","a","1","b","2">>>>>>)>>,
     <<Uri.VlessBadUuid, UrlOk(<<"v","l","e","s","s">>, <<"1","2","3","4">>, None, Some(<<"e","x","a","m","p","l","e",".","c","o","m">>), Some(443), None, <<>>)>>,
     <<Uri.VlessPortZero, UrlOk(<<"v","l","e","s","s">>, <<"1","2","3","e","4","5","6","7","-","e","8","9","b","-","1","2","d","3","-","a","4","5","6","-","4","2","6","6","1","4","1","7","4","0","0","0">>, None, Some(<<"e","x","a","m","p","l","e",".","c","o","m">>), Some(0), None, <<>>)>>,
     <<Uri.VlessBadPort, UrlBad>>,
     <<Uri.VlessRealityBadUuid, UrlOk(<<"v","l","e","s","s">>, <<"1","2","3","4">>, None, Some(<<"r","e","a","l","i","t","y",".","e","x","a","m","p","l","e",".","c","o","m">>), Some(443), None, <<<<<<"s","e","c","u","r","i","t","y">>, <<"r","e","a","l","i","t","y">>>>>>)>>,
     <<Uri.TrojanDefault, UrlOk(<<"t","r","o","j","a","n">>, <<"s","e","c","r","e","t">>, None, Some(<<"e","x","a","m","p","l","e",".","c","o","m">>), Some(443), Some(<<"T">>), <<>>)>>,
     <<Uri.TrojanMixedTls, UrlOk(<<"t","r","o","j","a","n">>, <<"s","e","c","r","e","t">>, None, Some(<<"e","x","a","m","p","l","e",".","c","o","m">>), Some(443), None, <<<<<<"s","e","c","u","r","i","t","y">>, <<"T","l","s">>>>, <<<<"t","y","p","e">>, <<"h","2">>>>, <<<<"h","o","s","t">>, <<"h",".","e","x","a","m","p","l","e">>>>>>)>>,
     <<Uri.TrojanNone, UrlOk(<<"t","r","o","j","a","n">>, <<"s","e","c","r","e","t">>, None, Some(<<"e","x","a","m","p","l","e",".","c","o","m">>), Some(443), None, <<<<<<"s","e","c","u","r","i","t","y">>, <<"n","o","n","e">>>>>>)>>,
     <<Uri.Socks5Creds, UrlOk(<<"s","o","c","k","s","5">>, <<"u","s","e","r">>, Some(<<"p","a","s","s">>), Some(<<"1","0",".","0",".","0",".","1">>), Some(1080), Some(<<"S">>), <<>>)>>,
     <<Uri.HttpsProxy, UrlOk(<<"h","t","t","p","s">>, <<>>, None, Some(<<"p","r","o","x","y",".","l","o","c","a","l">>), Some(8443), Some(<<"H">>), <<>>)>>,
     <<Uri.HttpsDefaultPort, UrlOk(<<"h","t","t","p","s">>, <<>>, None, Some(<<"p","r","o","x","y",".","l","o","c","a","l">>), None, None, <<>>)>>}
url_parse(raw) ==
    IF \E row \in UrlTable : row[1] = raw
    THEN (CHOOSE row \in UrlTable : row[1] = raw)[2]
    ELSE UrlBad

\* base64 decoding (STANDARD, then URL_SAFE_NO_PAD): the texts that decode,
\* with their decoded bytes; any other text is an error
Base64Table ==
    {<<<<"e","y","J","w","c","y","I","6","I","l","Z","N","I","i","w","i","Y","W","R","k","I","j","o","i","d","m","0","u","Z","X","h","h","b","X","B","s","Z","S","5","j","b","2","0","i","L","C","J","w","b","3","J","0","I","j","o","i","N","D","Q","z","I","i","w","i","a","W","Q","i","O","i","I","x","M","j","N","l","N","D","U","2","N","y","1","l","O","D","l","i","L","T","E","y","Z","D","M","t","Y","T","Q","1","N","i","0","0","M","j","Y","2","M","T","Q","x","N","z","Q","w","M","D","A","i","L","C","J","u","Z","X","Q","i","O","i","J","3","c","y","I","s","I","n","R","s","c","y","I","6","I","n","R","s","c","y","I","s","I","m","h","v","c","3","Q","i","O","i","J","o","L","m","V","4","Y","W","1","w","b","G","U","i","L","C","J","w","Y","X","R","o","I","j","o","i","L","3","Y","i","f","Q","=","=">>,
       <<"{","\"","p","s","\"",":","\"","V","M","\"",",","\"","a","d","d","\"",":","\"","v","m",".","e","x","a","m","p","l","e",".","c","o","m","\"",",","\"","p","o","r","t","\"",":","\"","4","4","3","\"",",","\"","i","d","\"",":","\"","1","2","3","e","4","5","6","7","-","e","8","9","b","-","1","2","d","3","-","a","4","5","6","-","4","2","6","6","1","4","1","7","4","0","0","0","\"",",","\"","n","e","t","\"",":","\"","w","s","\"",",","\"","t","l","s","\"",":","\"","t","l","s","\"",",","\"","h","o","s","t","\"",":","\"","h",".","e","x","a","m","p","l","e","\"",",","\"","p","a","t","h","\"",":","\"","/","v","\"","}">>>>,
     <<<<"e","y","J","h","Z","G","Q","i","O","i","J","2","b","S","5","l","e","G","F","t","c","G","x","l","L","m","N","v","b","S","I","s","I","n","B","v","c","n","Q","i","O","i","I","0","N","D","M","i","L","C","J","p","Z","C","I","6","I","j","E","y","M","2","U","0","N","T","Y","3","L","W","U","4","O","W","I","t","M","T","J","k","M","y","1","h","N","D","U","2","L","T","Q","y","N","j","Y","x","N","D","E","3","N","D","A","w","M","C","I","s","I","n","R","s","c","y","I","6","I","l","R","M","U","y","J","9">>,
       <<"{","\"","a","d","d","\"",":","\"","v","m",".","e","x","a","m","p","l","e",".","c","o","m","\"",",","\"","p","o","r","t","\"",":","\"","4","4","3","\"",",","\"","i","d","\"",":","\"","1","2","3","e","4","5","6","7","-","e","8","9","b","-","1","2","d","3","-","a","4","5","6","-","4","2","6","6","1","4","1","7","4","0","0","0","\"",",","\"","t","l","s","\"",":","\"","T","L","S","\"","}">>>>,
     <<<<"e","3","0","=">>,
       <<"{","}">>>>,
     <<<<"Y","W","V","z","L","T","I","1","N","i","1","n","Y","2","0","6","c","H","d","A","a","G","9","z","d","C","5","l","e","G","F","t","c","G","x","l","O","j","g","z","O","D","g","=">>,
       <<"a","e","s","-","2","5","6","-","g","c","m",":","p","w","@","h","o","s","t",".","e","x","a","m","p","l","e",":","8","3","8","8">>>>}
decode_base64(value) ==
    IF \E row \in Base64Table : row[1] = value
    THEN Ok((CHOOSE row \in Base64Table : row[1] = value)[2])
    ELSE Err("Decode", "invalid base64")

\* serde_json::from_slice::<VmessLink>: the documents that decode
JsonBad == [ok |-> FALSE]
VmessLink(ps, add, port, id, net, tls, sni, host, path) ==
    [ok |-> TRUE, ps |-> ps, add |-> add, port |-> port, id |-> id, net |-> net,
     tls |-> tls, sni |-> sni, host |-> host, path |-> path]
JsonTable ==
    {<<<<"{","\"","p","s","\"",":","\"","V","M","\"",",","\"","a","d","d","\"",":","\"","v","m",".","e","x","a","m","p","l","e",".","c","o","m","\"",",","\"","p","o","r","t","\"",":","\"","4","4","3","\"",",","\"","i","d","\"",":","\"","1","2","3","e","4","5","6","7","-","e","8","9","b","-","1","2","d","3","-","a","4","5","6","-","4","2","6","6","1","4","1","7","4","0","0","0","\"",",","\"","n","e","t","\"",":","\"","w","s","\"",",","\"","t","l","s","\"",":","\"","t","l","s","\"",",","\"","h","o","s","t","\"",":","\"","h",".","e","x","a","m","p","l","e","\"",",","\"","p","a","t","h","\"",":","\"","/","v","\"","}">>,
       VmessLink(Some(<<"V","M">>), <<"v","m",".","e","x","a","m","p","l","e",".","c","o","m">>, <<"4","4","3">>, <<"1","2","3","e","4","5","6","7","-","e","8","9","b","-","1","2","d","3","-","a","4","5","6","-","4","2","6","6","1","4","1","7","4","0","0","0">>, Some(<<"w","s">>), Some(<<"t","l","s">>), None, Some(<<"h",".","e","x","a","m","p","l","e">>), Some(<<"/","v">>))>>,
     <<<<"{","\"","a","d","d","\"",":","\"","v","m",".","e","x","a","m","p","l","e",".","c","o","m","\"",",","\"","p","o","r","t","\"",":","\"","4","4","3","\"",",","\"","i","d","\"",":","\"","1","2","3","e","4","5","6","7","-","e","8","9","b","-","1","2","d","3","-","a","4","5","6","-","4","2","6","6","1","4","1","7","4","0","0","0","\"",",","\"","t","l","s","\"",":","\"","T","L","S","\"","}">>,
       VmessLink(None, <<"v","m",".","e","x","a","m","p","l","e",".","c","o","m">>, <<"4","4","3">>, <<"1","2","3","e","4","5","6","7","-","e","8","9","b","-","1","2","d","3","-","a","4","5","6","-","4","2","6","6","1","4","1","7","4","0","0","0">>, None, Some(<<"T","L","S">>), None, None, None)>>,
     <<<<"{","}">>,
       JsonBad>>}
from_slice(bytes) ==
    IF \E row \in JsonTable : row[1] = bytes
    THEN (CHOOSE row \in JsonTable : row[1] = bytes)[2]
    ELSE JsonBad

\* validate_node: the checks of server, port and protocol credentials
validate_node_protocol(node) ==
    IF trim(node.server) = <<>> THEN Err("Node", "server is empty")
    ELSE IF node.port = 0 THEN Err("Node", "port must be > 0")
    ELSE IF node.protocol \in {Proto.vmess, Proto.vless}
         THEN IF unwrap_or(node.uuid, <<>>) = <<>> THEN Err("Node", "uuid is required")
              ELSE IF ~valid_uuid(unwrap_or(node.uuid, <<>>))
              THEN Err("Node", "uuid format is invalid")
              ELSE OkUnit
    ELSE IF node.protocol = Proto.trojan
         THEN IF unwrap_or(node.password, <<>>) = <<>> THEN Err("Node", "password is required")
              ELSE IF ~valid_password(unwrap_or(node.password, <<>>))
              THEN Err("Node", "password format is invalid")
              ELSE OkUnit
    ELSE IF node.protocol = Proto.shadowsocks
         THEN IF unwrap_or(node.password, <<>>) = <<>> THEN Err("Node", "password is required")
              ELSE IF ~valid_password(unwrap_or(node.password, <<>>))
              THEN Err("Node", "password format is invalid")
              ELSE IF unwrap_or(node.method, <<>>) = <<>> THEN Err("Node", "method is required")
              ELSE OkUnit
    ELSE IF node.protocol \in {Proto.socks, Proto.http} THEN OkUnit
    ELSE Err("Node", "unsupported protocol")

\* validate_node without the reality block
validate_node_no_reality(node) == validate_node_protocol(node)

\* validate_node: Result<(), String>; the error kind "Node" stands for the
\* bare message
validate_node(node) ==
    LET first == validate_node_protocol(node) IN
    IF ~first.ok THEN first
    ELSE IF node.security = Some(SecurityReality)
    THEN LET pbk == unwrap_or(node.reality_public_key, <<>>)
             sid == unwrap_or(node.reality_short_id, <<>>)
         IN IF pbk = <<>> \/ sid = <<>> THEN Err("Node", "reality requires pbk and sid")
            ELSE IF ~valid_reality_public_key(pbk)
            THEN Err("Node", "reality pbk format is invalid")
            ELSE IF ~valid_reality_short_id(sid)
            THEN Err("Node", "reality sid length is invalid")
            ELSE OkUnit
    ELSE OkUnit

\* Option::or, str::splitn(2, c), str::replace
option_or(a, b) == IF is_some(a) THEN a ELSE b
splitn2(s, c) ==
    LET cut == split_once(s, c) IN
    IF is_some(cut) THEN <<Some(unwrap(cut)[1]), Some(unwrap(cut)[2])>> ELSE <<Some(s), None>>
RECURSIVE replace(_, _, _)
replace(s, from, to) ==
    IF s = <<>> THEN <<>>
    ELSE IF starts_with(s, from) THEN to \o replace(SubSeq(s, Len(from) + 1, Len(s)), from, to)
    ELSE <<Head(s)>> \o replace(Tail(s), from, to)

parse_vmess(raw) ==
    LET encoded == trim_start_matches(raw, <<"v","m","e","s","s",":","/","/">>)
        decoded == decode_base64(encoded)
        vmess == from_slice(decoded.value)
        port == parse_u16(vmess.port)
    IN IF trim(encoded) = <<>> THEN Err("InvalidUrl", "vmess url missing payload")
       ELSE IF ~decoded.ok THEN Err("Decode", "invalid base64")
       ELSE IF ~vmess.ok THEN Err("Parse", "invalid json")
       ELSE IF trim(vmess.add) = <<>> THEN Err("Parse", "vmess missing server")
       ELSE IF trim(vmess.id) = <<>> THEN Err("Parse", "vmess missing uuid")
       ELSE IF port = None THEN Err("Parse", "invalid vmess port")
       ELSE Ok([ProxyNodeDefault EXCEPT
                   !.tag = unwrap_or(vmess.ps, <<>>),
                   !.protocol = Proto.vmess,
                   !.server = vmess.add,
                   !.port = unwrap(port),
                   !.uuid = Some(vmess.id),
                   !.security = vmess.tls,
                   !.network = vmess.net,
                   !.tls = (to_lowercase(unwrap_or(vmess.tls, <<>>)) = SecurityTls),
                   !.sni = option_or(vmess.sni, vmess.host),
                   !.ws_path = vmess.path,
                   !.ws_host = vmess.host])

QueryKey ==
    [type |-> <<"t","y","p","e">>, security |-> <<"s","e","c","u","r","i","t","y">>, sni |-> <<"s","n","i">>,
     host |-> <<"h","o","s","t">>, path |-> <<"p","a","t","h">>, serviceName |-> <<"s","e","r","v","i","c","e","N","a","m","e">>,
     pbk |-> <<"p","b","k">>, sid |-> <<"s","i","d">>, fp |-> <<"f","p">>]
\* the loop over url.query_pairs() of parse_vless and parse_trojan
RECURSIVE query_fields(_, _)
query_fields(pairs, node) ==
    IF pairs = <<>> THEN node
    ELSE LET key == Head(pairs)[1]
             value == Some(Head(pairs)[2])
             next ==
                 IF key = QueryKey.type THEN [node EXCEPT !.network = value]
                 ELSE IF key = QueryKey.security THEN [node EXCEPT !.security = value]
                 ELSE IF key = QueryKey.sni THEN [node EXCEPT !.sni = value]
                 ELSE IF key = QueryKey.host THEN [node EXCEPT !.ws_host = value, !.h2_host = value]
                 ELSE IF key = QueryKey.path THEN [node EXCEPT !.ws_path = value, !.h2_path = value]
                 ELSE IF key = QueryKey.serviceName THEN [node EXCEPT !.grpc_service = value]
                 ELSE IF key = QueryKey.pbk THEN [node EXCEPT !.reality_public_key = value]
                 ELSE IF key = QueryKey.sid THEN [node EXCEPT !.reality_short_id = value]
                 ELSE IF key = QueryKey.fp THEN [node EXCEPT !.fingerprint = value]
                 ELSE node
         IN query_fields(Tail(pairs), next)

parse_vless(raw) ==
    LET url == url_parse(raw) IN
    IF ~url.ok THEN Err("Parse", "url parse error")
    ELSE IF trim(url.username) = <<>> THEN Err("Parse", "vless missing uuid")
    ELSE IF url.host = None THEN Err("Parse", "vless missing host")
    ELSE IF url.port = None THEN Err("Parse", "vless missing port")
    ELSE LET node == query_fields(url.query,
                         [ProxyNodeDefault EXCEPT
                             !.tag = unwrap_or(url.fragment, <<>>),
                             !.protocol = Proto.vless,
                             !.server = unwrap(url.host),
                             !.port = unwrap(url.port),
                             !.uuid = Some(url.username)])
         IN Ok([node EXCEPT
                   !.tls = (to_lowercase(unwrap_or(node.security, <<>>)) = SecurityTls)])

parse_trojan(raw) ==
    LET url == url_parse(raw) IN
    IF ~url.ok THEN Err("Parse", "url parse error")
    ELSE IF trim(url.username) = <<>> THEN Err("Parse", "trojan missing password")
    ELSE IF url.host = None THEN Err("Parse", "trojan missing host")
    ELSE IF url.port = None THEN Err("Parse", "trojan missing port")
    ELSE LET node == query_fields(url.query,
                         [ProxyNodeDefault EXCEPT
                             !.tag = unwrap_or(url.fragment, <<>>),
                             !.protocol = Proto.trojan,
                             !.server = unwrap(url.host),
                             !.port = unwrap(url.port),
                             !.password = Some(url.username)])
         IN Ok([node EXCEPT
                   !.tls = (to_lowercase(unwrap_or(node.security, SecurityTls)) = SecurityTls)])

RECURSIVE parse_query_pairs(_, _)
parse_query_pairs(pairs, key) ==
    IF pairs = <<>> THEN None
    ELSE LET parts == splitn2(Head(pairs), "=")
             k == trim(unwrap(parts[1]))
             v == trim(unwrap_or(parts[2], <<>>))
         IN IF k = key
            THEN Some(replace(replace(v, <<"%","3","B">>, <<";">>), <<"%","3","b">>, <<";">>))
            ELSE parse_query_pairs(Tail(pairs), key)
parse_query_value(query, key) == parse_query_pairs(split(query, "&"), key)

parse_shadowsocks(raw) ==
    LET
        \* last block: the host and port, and the node
        ss_node(cred_parts, hostport, tag, plugin_value) ==
            LET host_parts == splitn2(hostport, ":")
                port == parse_u16(unwrap_or(host_parts[2], <<>>))
                plugin_parts == IF is_some(plugin_value) THEN splitn2(unwrap(plugin_value), ";")
                                ELSE <<None, None>>
            IN IF port = None THEN Err("Parse", "invalid ss port")
               ELSE Ok([ProxyNodeDefault EXCEPT
                           !.tag = tag,
                           !.protocol = Proto.shadowsocks,
                           !.server = unwrap_or(host_parts[1], <<>>),
                           !.port = unwrap(port),
                           !.password = Some(unwrap_or(cred_parts[2], <<>>)),
                           !.method = Some(unwrap_or(cred_parts[1], <<>>)),
                           !.plugin = plugin_parts[1],
                           !.plugin_opts = plugin_parts[2]])
        \* the method and password, plain or base64
        ss_method(creds, hostport, tag, plugin_value) ==
            LET inner == decode_base64(creds) IN
            IF \E i \in 1..Len(creds) : creds[i] = ":"
            THEN ss_node(splitn2(creds, ":"), hostport, tag, plugin_value)
            ELSE IF ~inner.ok THEN Err("Decode", "ss base64 decode failed")
            ELSE ss_node(splitn2(inner.value, ":"), hostport, tag, plugin_value)
        \* the credentials and host:port, plain or base64 as a whole
        ss_creds(main, tag, plugin_value) ==
            LET at == split_once(main, "@")
                whole == decode_base64(main)
            IN IF is_some(at) THEN ss_method(unwrap(at)[1], unwrap(at)[2], tag, plugin_value)
               ELSE IF ~whole.ok THEN Err("Decode", "ss base64 decode failed")
               ELSE ss_method(unwrap_or(splitn2(whole.value, "@")[1], <<>>),
                              unwrap_or(splitn2(whole.value, "@")[2], <<>>), tag, plugin_value)
        \* the query with the plugin
        ss_query(main, tag) ==
            LET quest == split_once(main, "?") IN
            IF is_some(quest)
            THEN ss_creds(unwrap(quest)[1], tag, parse_query_value(unwrap(quest)[2], <<"p","l","u","g","i","n">>))
            ELSE ss_creds(main, tag, None)
        rest == trim_start_matches(raw, <<"s","s",":","/","/">>)
        hash == split_once(rest, "#")
    IN IF trim(rest) = <<>> THEN Err("InvalidUrl", "ss url missing payload")
       ELSE IF is_some(hash) THEN ss_query(unwrap(hash)[1], unwrap(hash)[2])
       ELSE ss_query(rest, <<>>)

parse_socks(raw) ==
    LET url == url_parse(raw) IN
    IF ~url.ok THEN Err("Parse", "url parse error")
    ELSE IF url.host = None THEN Err("Parse", "socks missing host")
    ELSE IF url.port = None THEN Err("Parse", "socks missing port")
    ELSE LET password == unwrap_or(url.password, <<>>) IN
         Ok([ProxyNodeDefault EXCEPT
                !.tag = unwrap_or(url.fragment, <<>>),
                !.protocol = Proto.socks,
                !.server = unwrap(url.host),
                !.port = unwrap(url.port),
                !.password = IF password = <<>> THEN None ELSE Some(password),
                !.username = IF url.username = <<>> THEN None ELSE Some(url.username)])

parse_http_proxy(raw) ==
    LET url == url_parse(raw) IN
    IF ~url.ok THEN Err("Parse", "url parse error")
    ELSE IF url.host = None THEN Err("Parse", "http proxy missing host")
    ELSE IF url.port = None THEN Err("Parse", "http proxy missing port")
    ELSE LET password == unwrap_or(url.password, <<>>)
             https == url.scheme = <<"h","t","t","p","s">>
         IN Ok([ProxyNodeDefault EXCEPT
                   !.tag = unwrap_or(url.fragment, <<>>),
                   !.protocol = Proto.http,
                   !.server = unwrap(url.host),
                   !.port = unwrap(url.port),
                   !.password = IF password = <<>> THEN None ELSE Some(password),
                   !.username = IF url.username = <<>> THEN None ELSE Some(url.username),
                   !.security = IF https THEN Some(SecurityTls) ELSE None,
                   !.tls = https])

Scheme ==
    [vmess |-> <<"v","m","e","s","s",":","/","/">>, vless |-> <<"v","l","e","s","s",":","/","/">>, trojan |-> <<"t","r","o","j","a","n",":","/","/">>,
     ss |-> <<"s","s",":","/","/">>, socks5 |-> <<"s","o","c","k","s","5",":","/","/">>, socks |-> <<"s","o","c","k","s",":","/","/">>,
     http |-> <<"h","t","t","p",":","/","/">>, https |-> <<"h","t","t","p","s",":","/","/">>]
\* the dispatch on the scheme of one trimmed entry
parse_entry(raw, idx) ==
    IF starts_with(raw, Scheme.vmess) THEN parse_vmess(raw)
    ELSE IF starts_with(raw, Scheme.vless) THEN parse_vless(raw)
    ELSE IF starts_with(raw, Scheme.trojan) THEN parse_trojan(raw)
    ELSE IF starts_with(raw, Scheme.ss) THEN parse_shadowsocks(raw)
    ELSE IF starts_with(raw, Scheme.socks5) \/ starts_with(raw, Scheme.socks)
    THEN parse_socks(raw)
    ELSE IF starts_with(raw, Scheme.http) \/ starts_with(raw, Scheme.https)
    THEN parse_http_proxy(raw)
    ELSE ErrAt("InvalidUrl", idx + 1, "unsupported scheme")

\* the tag of a parsed node, proxy-<idx + 1> when it has none
tagged(node, idx) ==
    [node EXCEPT !.tag = IF trim(node.tag) = <<>>
                         THEN <<"p","r","o","x","y","-">> \o fmt_decimal(idx + 1)
                         ELSE node.tag]

\* parse_proxy_urls with a node that fails validation left out of the
\* result instead of ending the call
RECURSIVE parse_proxy_loop_skip_invalid(_, _, _)
parse_proxy_loop_skip_invalid(urls, idx, nodes) ==
    LET validated(node, valid) ==
            IF ~valid.ok THEN parse_proxy_loop_skip_invalid(urls, idx + 1, nodes)
            ELSE parse_proxy_loop_skip_invalid(urls, idx + 1, Append(nodes, node))
        with_tag(node) == validated(node, validate_node(node))
        entry(raw, parsed) ==
            IF raw = <<>> THEN ErrAt("InvalidUrl", idx + 1, "url is empty")
            ELSE IF ~parsed.ok THEN parsed
            ELSE with_tag(tagged(parsed.value, idx))
    IN IF idx >= Len(urls) THEN Ok(nodes)
       ELSE entry(trim(urls[idx + 1]), parse_entry(trim(urls[idx + 1]), idx))

\* the loop of parse_proxy_urls; idx is 0-based. A message that names the
\* entry ("invalid node at index <idx + 1>: <reason>") is the error's line
\* idx + 1 and text <reason>
RECURSIVE parse_proxy_loop(_, _, _)
parse_proxy_loop(urls, idx, nodes) ==
    LET validated(node, valid) ==
            IF ~valid.ok THEN ErrAt("Parse", idx + 1, valid.text)
            ELSE parse_proxy_loop(urls, idx + 1, Append(nodes, node))
        with_tag(node) == validated(node, validate_node(node))
        entry(raw, parsed) ==
            IF raw = <<>> THEN ErrAt("InvalidUrl", idx + 1, "url is empty")
            ELSE IF ~parsed.ok THEN parsed
            ELSE with_tag(tagged(parsed.value, idx))
    IN IF idx >= Len(urls) THEN Ok(nodes)
       ELSE entry(trim(urls[idx + 1]), parse_entry(trim(urls[idx + 1]), idx))

parse_proxy_urls(urls) ==
    IF urls = <<>> THEN Err("InvalidUrl", "no proxy urls provided")
    ELSE parse_proxy_loop(urls, 0, <<>>)

(***************************************************************************)
(* core/xray.rs: the outbound assembler                                    *)
(***************************************************************************)
\* a JSON object is a record; obj[key] = value, the key added when absent
json_set(obj, key, value) ==
    [k \in DOMAIN obj \cup {key} |-> IF k = key THEN value ELSE obj[k]]
unwrap_or_default(o) == unwrap_or(o, <<>>)

vmess_settings(node) ==
    Some([vnext |-> <<[address |-> node.server, port |-> node.port,
                       users |-> <<[id |-> unwrap_or_default(node.uuid), alterId |-> 0,
                                    security |-> <<"a","u","t","o">>]>>]>>])
vless_settings(node) ==
    Some([vnext |-> <<[address |-> node.server, port |-> node.port,
                       users |-> <<[id |-> unwrap_or_default(node.uuid),
                                    encryption |-> <<"n","o","n","e">>]>>]>>])
trojan_settings(node) ==
    Some([servers |-> <<[address |-> node.server, port |-> node.port,
                         password |-> unwrap_or_default(node.password)]>>])
shadowsocks_settings(node) ==
    LET server == [address |-> node.server, port |-> node.port,
                   method |-> unwrap_or(node.method, <<"a","e","s","-","1","2","8","-","g","c","m">>),
                   password |-> unwrap_or_default(node.password)]
        with_plugin == IF is_some(node.plugin)
                       THEN json_set(server, "plugin", unwrap(node.plugin)) ELSE server
        with_opts == IF is_some(node.plugin_opts)
                     THEN json_set(with_plugin, "pluginOpts", unwrap(node.plugin_opts))
                     ELSE with_plugin
    IN Some([servers |-> <<with_opts>>])
socks_settings(node) ==
    LET server == [address |-> node.server, port |-> node.port] IN
    Some([servers |-> <<IF is_some(node.username) \/ is_some(node.password)
                        THEN json_set(server, "users",
                                 <<[user |-> unwrap_or_default(node.username),
                                    pass |-> unwrap_or_default(node.password)]>>)
                        ELSE server>>])
http_settings(node) == socks_settings(node)
http_stream_settings(node) ==
    IF ~node.tls THEN None
    ELSE Some([security |-> SecurityTls, tlsSettings |-> [serverName |-> node.server]])

Network == [tcp |-> <<"t","c","p">>, ws |-> <<"w","s">>, grpc |-> <<"g","r","p","c">>, h2 |-> <<"h","2">>]
stream_settings(node) ==
    LET settings == [network |-> unwrap_or(node.network, Network.tcp)]
        security == unwrap_or(node.security,
                        IF node.tls THEN SecurityTls ELSE <<"n","o","n","e">>)
        tls0 == IF security = SecurityTls /\ node.tls
                THEN json_set(settings, "security", SecurityTls) ELSE settings
        tls1 == IF security = SecurityTls /\ node.tls /\ is_some(node.sni)
                THEN json_set(tls0, "tlsSettings", [serverName |-> unwrap(node.sni)])
                ELSE tls0
        reality == IF security = SecurityReality
                   THEN json_set(json_set(tls1, "security", SecurityReality),
                            "realitySettings",
                            [serverName |-> unwrap_or_default(node.sni),
                             publicKey |-> unwrap_or_default(node.reality_public_key),
                             shortId |-> unwrap_or_default(node.reality_short_id),
                             fingerprint |-> unwrap_or(node.fingerprint, <<"c","h","r","o","m","e">>)])
                   ELSE tls1
        ws == IF node.network = Some(Network.ws)
              THEN json_set(reality, "wsSettings",
                       [path |-> unwrap_or(node.ws_path, <<"/">>),
                        headers |-> [Host |-> unwrap_or_default(node.ws_host)]])
              ELSE reality
        grpc == IF node.network = Some(Network.grpc)
                THEN json_set(ws, "grpcSettings",
                         [serviceName |-> unwrap_or_default(node.grpc_service)])
                ELSE ws
        h2 == IF node.network = Some(Network.h2)
              THEN json_set(grpc, "httpSettings",
                       [path |-> unwrap_or(node.h2_path, <<"/">>),
                        host |-> <<unwrap_or_default(node.h2_host)>>])
              ELSE grpc
    IN Some(h2)

XrayOutbound(tag, protocol, settings, stream) ==
    [tag |-> tag, protocol |-> protocol, settings |-> settings, stream_settings |-> stream]
node_to_outbound(node) ==
    LET pair ==
            IF node.protocol = Proto.vmess THEN <<vmess_settings(node), stream_settings(node)>>
            ELSE IF node.protocol = Proto.vless
            THEN <<vless_settings(node), stream_settings(node)>>
            ELSE IF node.protocol = Proto.trojan
            THEN <<trojan_settings(node), stream_settings(node)>>
            ELSE IF node.protocol = Proto.shadowsocks THEN <<shadowsocks_settings(node), None>>
            ELSE IF node.protocol = Proto.socks THEN <<socks_settings(node), None>>
            ELSE IF node.protocol = Proto.http
            THEN <<http_settings(node), http_stream_settings(node)>>
            ELSE <<None, None>>
    IN XrayOutbound(node.tag, node.protocol, pair[1], pair[2])

Tag ==
    [direct |-> <<"d","i","r","e","c","t">>, reject |-> <<"r","e","j","e","c","t">>, freedom |-> <<"f","r","e","e","d","o","m">>,
     blackhole |-> <<"b","l","a","c","k","h","o","l","e">>, best_ping |-> <<"b","e","s","t","_","p","i","n","g">>,
     load_balance |-> <<"l","o","a","d","_","b","a","l","a","n","c","e">>, fallback |-> <<"f","a","l","l","b","a","c","k">>,
     leastPing |-> <<"l","e","a","s","t","P","i","n","g">>, random |-> <<"r","a","n","d","o","m">>]
build_balancers(tags) ==
    IF tags = <<>> THEN <<>>
    ELSE <<[tag |-> Tag.best_ping, selector |-> tags, strategy |-> [type |-> Tag.leastPing]],
           [tag |-> Tag.load_balance, selector |-> tags, strategy |-> [type |-> Tag.random]],
           [tag |-> Tag.fallback, selector |-> tags, strategy |-> [type |-> Tag.random]]>>

\* build_xray_config with the two synthetic outbounds placed first
build_xray_config_synthetic_first(nodes) ==
    [log |-> [loglevel |-> <<"w","a","r","n","i","n","g">>],
     outbounds |-> <<XrayOutbound(Tag.direct, Tag.freedom, None, None),
                     XrayOutbound(Tag.reject, Tag.blackhole, None, None)>>
                   \o [i \in 1..Len(nodes) |-> node_to_outbound(nodes[i])],
     routing |-> [domain_strategy |-> <<"A","s","I","s">>, rules |-> <<>>,
                  balancers |-> build_balancers([i \in 1..Len(nodes) |-> nodes[i].tag])]]

\* the log, outbounds and routing sections of the XrayConfig; the inbounds
\* and dns sections are constants of the build
build_xray_config(nodes) ==
    [log |-> [loglevel |-> <<"w","a","r","n","i","n","g">>],
     outbounds |-> [i \in 1..Len(nodes) |-> node_to_outbound(nodes[i])]
                   \o <<XrayOutbound(Tag.direct, Tag.freedom, None, None),
                        XrayOutbound(Tag.reject, Tag.blackhole, None, None)>>,
     routing |-> [domain_strategy |-> <<"A","s","I","s">>, rules |-> <<>>,
                  balancers |-> build_balancers([i \in 1..Len(nodes) |-> nodes[i].tag])]]

(***************************************************************************)
(* core/actions.rs and core/action_backend.rs: planning and rendering      *)
(***************************************************************************)
\* ActionKind
KindRoute(name) == [tag |-> "Route", name |-> name]
KindSwitchRoute(name) == [tag |-> "SwitchRoute", name |-> name]
KindBlock == [tag |-> "Block"]
KindThrottle(name) == [tag |-> "Throttle", name |-> name]
KindLogOnly == [tag |-> "LogOnly"]
ActionDecision(kind, log) == [kind |-> kind, log |-> log]

\* plan_action with block consulted before route
plan_action_block_first(action) ==
    LET log == unwrap_or(action.log, FALSE) IN
    IF action.block = Some(TRUE) THEN ActionDecision(KindBlock, log)
    ELSE IF is_some(action.route) THEN ActionDecision(KindRoute(unwrap(action.route)), log)
    ELSE IF is_some(action.switch_route)
    THEN ActionDecision(KindSwitchRoute(unwrap(action.switch_route)), log)
    ELSE IF is_some(action.throttle)
    THEN ActionDecision(KindThrottle(unwrap(action.throttle)), log)
    ELSE ActionDecision(KindLogOnly, TRUE)

plan_action(action) ==
    LET log == unwrap_or(action.log, FALSE) IN
    IF is_some(action.route) THEN ActionDecision(KindRoute(unwrap(action.route)), log)
    ELSE IF is_some(action.switch_route)
    THEN ActionDecision(KindSwitchRoute(unwrap(action.switch_route)), log)
    ELSE IF action.block = Some(TRUE) THEN ActionDecision(KindBlock, log)
    ELSE IF is_some(action.throttle)
    THEN ActionDecision(KindThrottle(unwrap(action.throttle)), log)
    ELSE ActionDecision(KindLogOnly, TRUE)

MARK_MASK == 65535

\* route_mark without the mask
route_mark_unmasked(route, h) ==
    LET value == h[route] IN <<"0", "x">> \o fmt_hex(value)

\* route_mark: h is the hash function of DefaultHasher::new(); its 64-bit
\* values are kept below 2^31, and & 0xffff is the remainder modulo 0x10000
route_mark(route, h) ==
    LET value == h[route] % (MARK_MASK + 1) IN <<"0", "x">> \o fmt_hex(value)

match_fragment(proto, port, style) ==
    IF style = "Iptables"
    THEN IF is_some(port)
         THEN <<"-","p"," ">> \o proto \o <<" ","-","-","d","p","o","r","t"," ">> \o fmt_decimal(unwrap(port))
         ELSE <<"-","p"," ">> \o proto
    ELSE IF is_some(port)
         THEN proto \o <<" ","d","p","o","r","t"," ">> \o fmt_decimal(unwrap(port))
         ELSE proto

render_iptables(ctx, decision0, h) ==
    LET proto == unwrap_or(ctx.protocol, <<"t","c","p">>)
        match_part == match_fragment(proto, ctx.port, "Iptables")
        head == <<"i","p","t","a","b","l","e","s"," ","-","A"," ","O","U","T","P","U","T"," ">> \o match_part
        kind == decision0.kind
    IN IF kind.tag = "Block" THEN <<head \o <<" ","-","j"," ","D","R","O","P">>>>
       ELSE IF kind.tag \in {"Route", "SwitchRoute"}
       THEN <<head \o <<" ","-","j"," ","M","A","R","K"," ","-","-","s","e","t","-","m","a","r","k"," ">> \o route_mark(kind.name, h)>>
       ELSE IF kind.tag = "Throttle"
       THEN <<head \o <<" ","-","j"," ","M","A","R","K"," ","-","-","s","e","t","-","m","a","r","k"," ">> \o route_mark(kind.name, h)>>
       ELSE <<head \o <<" ","-","j"," ","L","O","G"," ","-","-","l","o","g","-","p","r","e","f","i","x"," ","\"","n","e","t","p","o","l","i","c","y","\"">>>>

render_nftables(ctx, decision0, h) ==
    LET proto == unwrap_or(ctx.protocol, <<"t","c","p">>)
        match_part == match_fragment(proto, ctx.port, "Nftables")
        head == <<"n","f","t"," ","a","d","d"," ","r","u","l","e"," ","i","n","e","t"," ","n","e","t","p","o","l","i","c","y"," ","o","u","t","p","u","t"," ">> \o match_part
        kind == decision0.kind
    IN IF kind.tag = "Block" THEN <<head \o <<" ","d","r","o","p">>>>
       ELSE IF kind.tag \in {"Route", "SwitchRoute"}
       THEN <<head \o <<" ","m","a","r","k"," ","s","e","t"," ">> \o route_mark(kind.name, h)>>
       ELSE IF kind.tag = "Throttle"
       THEN <<head \o <<" ","m","a","r","k"," ","s","e","t"," ">> \o route_mark(kind.name, h)>>
       ELSE <<head \o <<" ","l","o","g"," ","p","r","e","f","i","x"," ","\"","n","e","t","p","o","l","i","c","y","\"">>>>

BackendKinds == {"Iptables", "Nftables"}
render_backend(backend, ctx, decision0, h) ==
    [backend |-> backend,
     commands |-> IF backend = "Iptables" THEN render_iptables(ctx, decision0, h)
                  ELSE render_nftables(ctx, decision0, h)]

(***************************************************************************)
(* The state machine of core/state.rs as a transition system               *)
(***************************************************************************)
SmInit == SmNew
SmIdle == SmNew

(***************************************************************************)
(* Port patterns: validate_port_pattern and match_port                     *)
(***************************************************************************)
MaxPatLen == 5

PortAlphabet == {"1", "2", "-", ","}
\* every string over the alphabet of at most n characters
RECURSIVE strings_upto(_, _)
strings_upto(alphabet, n) ==
    IF n = 0 THEN {<<>>}
    ELSE LET shorter == strings_upto(alphabet, n - 1) IN
         shorter \cup {Append(t, c) : t \in shorter, c \in alphabet}

PortPatternsPicked ==
    { <<"2","2",",","1","0","0","0","-","2","0","0","0">>, <<"6","5","5","3","5">>, <<"6","5","5","3","6">>, <<"0","-","6","5","5","3","5">>, <<"+","2","2">>, <<"0","2","2">>, <<" ","2","2"," ","-"," ","3","0"," ",","," ","5">>, <<"2","2",","," ">>, <<"1","-","2","-","3">>, <<"9","-","1">>, <<"4","4","3">>, <<"a">>, <<"-","5">>, <<"5","-">> }
PortPatterns == strings_upto(PortAlphabet, MaxPatLen) \cup PortPatternsPicked
PortArgs ==
    {None} \cup {Some(p) : p \in {0, 1, 2, 5, 11, 12, 21, 22, 23, 30, 443, 999, 1000,
                                  1500, 2000, 2001, 65535}}

PortInit ==
    /\ port_pattern \in PortPatterns
    /\ port_valid = None
    /\ port_arg = None
    /\ port_match = None
PortIdle ==
    /\ port_pattern = <<>>
    /\ port_valid = None
    /\ port_arg = None
    /\ port_match = None

ValidatePort ==
    /\ port_valid = None
    /\ port_valid' = Some(validate_port_pattern(port_pattern))
    /\ UNCHANGED <<port_pattern, port_arg, port_match>>
    /\ UNCHANGED <<smVars, ruleVars, sniVars, daemonVars>>

\* rule_matches on a rule whose only predicate is the port pattern and a
\* context whose only field is the port p (an Option<u16>)
MatchPort(p) ==
    /\ port_valid # None
    /\ port_match = None
    /\ port_arg' = Some(p)
    /\ port_match' = Some(rule_matches([MatchDefault EXCEPT !.port = Some(port_pattern)],
                                       [MatchContextDefault EXCEPT !.port = p]))
    /\ UNCHANGED <<port_pattern, port_valid>>
    /\ UNCHANGED <<smVars, ruleVars, sniVars, daemonVars>>

(***************************************************************************)
(* Sni patterns: match_sni                                                 *)
(***************************************************************************)
SniSuffixes == { <<"z","o","o","m",".","u","s">>, <<"Z","o","o","m",".","U","S">>, <<"u","s">>, <<"a",".","b">> }
SniPatterns ==
    {<<"*">>}
    \cup SniSuffixes
    \cup {<<"*", ".">> \o x : x \in SniSuffixes}
    \cup {<<"*">> \o x : x \in SniSuffixes}
    \cup {x \o <<"*">> : x \in SniSuffixes}
SniValues ==
    {None, Some(<<>>)}
    \cup {Some(x) : x \in SniSuffixes}
    \cup {Some(<<"a", ".">> \o x) : x \in SniSuffixes}
    \cup {Some(<<"n", "o", "t">> \o x) : x \in SniSuffixes}
    \cup {Some(x \o <<".", "e", "v", "i", "l">>) : x \in SniSuffixes}

SniInit ==
    /\ sni_pattern \in SniPatterns
    /\ sni_value \in SniValues
    /\ sni_result = None
SniIdle ==
    /\ sni_pattern = <<"*">>
    /\ sni_value = None
    /\ sni_result = None

MatchSni ==
    /\ sni_result = None
    /\ sni_result' = Some(match_sni(sni_pattern, sni_value))
    /\ UNCHANGED <<sni_pattern, sni_value>>
    /\ UNCHANGED <<smVars, ruleVars, portVars, daemonVars>>

(***************************************************************************)
(* Rulesets: parsing (parse_ruleset, parse_dsl) and evaluation             *)
(***************************************************************************)
YamlSource(yaml) == [kind |-> "yaml", yaml |-> yaml]
DslSource(lines) == [kind |-> "dsl", lines |-> lines]
NoSource == [kind |-> "none"]

\* every sequence over the set of at most n elements
RECURSIVE seqs_upto(_, _)
seqs_upto(pool, n) ==
    IF n = 0 THEN {<<>>}
    ELSE LET shorter == seqs_upto(pool, n - 1) IN
         shorter \cup {Append(t, x) : t \in shorter, x \in pool}

RuleInit(sources) ==
    /\ source \in sources
    /\ loaded = None
    /\ eval_ctx = MatchContextDefault
    /\ eval_state = "Normal"
    /\ decision = None
RuleIdle == RuleInit({NoSource})

\* netpolicy lint / load_ruleset: parse_ruleset on the text of the file
ParseRuleset ==
    /\ source.kind = "yaml"
    /\ loaded = None
    /\ loaded' = Some(parse_ruleset(source.yaml))
    /\ UNCHANGED <<source, eval_ctx, eval_state, decision>>
    /\ UNCHANGED <<smVars, portVars, sniVars, daemonVars>>

\* netpolicy dsl-lint: parse_dsl on the text of the file
ParseDsl ==
    /\ source.kind = "dsl"
    /\ loaded = None
    /\ loaded' = Some(parse_dsl(source.lines))
    /\ UNCHANGED <<source, eval_ctx, eval_state, decision>>
    /\ UNCHANGED <<smVars, portVars, sniVars, daemonVars>>

\* evaluate_ruleset on the ruleset the parser returned
Evaluate(c, state) ==
    /\ loaded # None
    /\ unwrap(loaded).ok
    /\ decision = None
    /\ eval_ctx' = c
    /\ eval_state' = state
    /\ decision' = Some(evaluate_ruleset(unwrap(loaded).value, c, state))
    /\ UNCHANGED <<source, loaded>>
    /\ UNCHANGED <<smVars, portVars, sniVars, daemonVars>>

(* ---- the texts offered to the parsers ---- *)
MaxDocRules == 2
MaxDslLines == 4

NoAction == Action(None, None, None, None, None)
RouteFast == Action(Some(<<"f","a","s","t">>), None, None, None, None)

\* every combination of the four primaries, without log
PrimaryActions ==
    { Action(r, sw, b, t, None) :
        r \in {None, Some(<<"f","a","s","t">>)}, sw \in {None, Some(<<"b","a","c","k","u","p">>)},
        b \in {None, Some(TRUE), Some(FALSE)}, t \in {None, Some(<<"b","u","l","k">>)} }
LoggedActions ==
    { [a EXCEPT !.log = Some(TRUE)] :
        a \in { NoAction, RouteFast,
                Action(None, None, Some(FALSE), None, None),
                Action(None, None, Some(TRUE), Some(<<"b","u","l","k">>), None) } }

MatchAny == [MatchDefault EXCEPT !.any = Some(TRUE)]
LintMatches ==
    { MatchDefault,
      [MatchDefault EXCEPT !.any = Some(FALSE)],
      [MatchDefault EXCEPT !.port = Some(<<"4","4","3">>)],
      [MatchDefault EXCEPT !.port = Some(<<"9","-","1">>)],
      [MatchDefault EXCEPT !.port = Some(<<"2","2",",",",","2","3">>)],
      [MatchDefault EXCEPT !.port = Some(<<"6","5","5","3","6">>)],
      [MatchAny EXCEPT !.port = Some(<<"2","2",",","1","0","0","0","-","2","0","0","0">>)],
      [MatchAny EXCEPT !.port = Some(<<"9","-","1">>)],
      [MatchDefault EXCEPT !.any = Some(FALSE), !.port = Some(<<"9","-","1">>)],
      [MatchDefault EXCEPT !.sni = Some(<<"*",".","z","o","o","m",".","u","s">>), !.protocol = Some(<<"t","c","p">>)] }

LintRules ==
    { Rule(<<"r">>, 10, MatchAny, None, None, a) : a \in PrimaryActions \cup LoggedActions }
    \cup { Rule(<<"r">>, 10, m, None, None, RouteFast) : m \in LintMatches }
    \cup { Rule(<<" ">>, 10, MatchAny, None, None, RouteFast),
           Rule(<<"r">>, -1, MatchAny, None, None, RouteFast),
           Rule(<<"r">>, 0, MatchAny, Some(RuleWhen(Some(Single(<<"s","o","m","e","t","i","m","e","s">>)))), None, RouteFast),
           Rule(<<"r">>, 0, MatchAny, None, Some(Many(<<>>)), RouteFast) }

YamlSources ==
    {YamlSource(YamlBad)}
    \cup {YamlSource(YamlDoc(rules)) : rules \in seqs_upto(LintRules, MaxDocRules)}

DslLines ==
    { <<"r","u","l","e"," ","a",":">>,
      <<" "," ","m","a","t","c","h"," ","a","n","y">>,
      <<" "," ","m","a","t","c","h"," ","p","o","r","t","=","9","-","1">>,
      <<" "," ","m","a","t","c","h"," ","p","o","r","t","=","'","4","4","3","'">>,
      <<" "," ","a","c","t","i","o","n"," ","r","o","u","t","e","=","f","a","s","t">>,
      <<" "," ","a","c","t","i","o","n"," ","b","l","o","c","k"," ","l","o","g">>,
      <<" "," ","p","r","i","o","r","i","t","y"," ","5">>,
      <<"#"," ","n","o","t","e">> }
DslSources == {DslSource(lines) : lines \in seqs_upto(DslLines, MaxDslLines)}

\* texts of several rule blocks, with blank and comment lines
DslText ==
    [rule_a |-> <<"r","u","l","e"," ","a",":">>,
     rule_b |-> <<"r","u","l","e"," ","b",":">>,
     blank |-> <<" ">>,
     note |-> <<"#"," ","n","o","t","e">>,
     priority |-> <<" "," ","p","r","i","o","r","i","t","y"," ","5">>,
     any |-> <<" "," ","m","a","t","c","h"," ","a","n","y">>,
     route |-> <<" "," ","a","c","t","i","o","n"," ","r","o","u","t","e","=","f","a","s","t">>,
     block |-> <<" "," ","a","c","t","i","o","n"," ","b","l","o","c","k"," ","l","o","g">>]
\* the pieces the texts are made of: a header, a blank or comment line, a
\* directive, or the match and action lines a rule needs to validate
DslPieces ==
    { <<DslText.rule_a>>, <<DslText.rule_b>>, <<DslText.blank>>, <<DslText.note>>,
      <<DslText.priority>>, <<DslText.any, DslText.route>>, <<DslText.any, DslText.block>> }
RECURSIVE concat(_)
concat(pieces) == IF pieces = <<>> THEN <<>> ELSE Head(pieces) \o concat(Tail(pieces))
DslBlockSources == {DslSource(concat(pieces)) : pieces \in seqs_upto(DslPieces, MaxDslLines)}


(* ---- the rulesets and contexts offered to the engine ---- *)
MaxRules == 3

EngineRules ==
    { Rule(<<"g","e","n","e","r","a","l">>, 50, MatchAny, None, None,
           Action(Some(<<"s","l","o","w">>), None, None, None, Some(TRUE))),
      Rule(<<"s","p","e","c","i","f","i","c">>, 50,
           [MatchDefault EXCEPT !.protocol = Some(<<"t","c","p">>), !.port = Some(<<"4","4","3">>)],
           None, None, RouteFast),
      Rule(<<"a","n","y","_","w","i","t","h","_","f","i","e","l","d","s">>, 50,
           [MatchAny EXCEPT !.sni = Some(<<"*",".","z","o","o","m",".","u","s">>), !.port = Some(<<"4","4","3">>)],
           None, None, Action(None, None, Some(TRUE), None, None)),
      Rule(<<"f","a","i","l","o","v","e","r","_","r","u","l","e">>, 100, MatchAny,
           Some(RuleWhen(Some(Single(<<"F","A","I","L","O","V","E","R">>)))), None,
           Action(None, Some(<<"b","a","c","k","u","p">>), None, None, None)),
      Rule(<<"g","a","t","e","d">>, 100,
           [MatchDefault EXCEPT !.protocol = Some(<<"T","C","P">>)],
           Some(RuleWhen(Some(Many(<<<<"f","a","i","l","o","v","e","r">>, <<"N","O","R","M","A","L">>>>)))),
           Some(Many(<<<<" ","d","e","g","r","a","d","e","d"," ">>, <<"F","a","i","l","o","v","e","r">>>>)),
           Action(None, None, None, Some(<<"b","u","l","k">>), None)),
      Rule(<<"z","o","o","m","_","s","l","o","w">>, 50,
           [MatchDefault EXCEPT !.sni = Some(<<"*",".","z","o","o","m",".","u","s">>), !.latency_ms = Some(<<">","1","0","0">>)],
           None, Some(Single(<<"r","e","c","o","v","e","r","y">>)), RouteFast),
      Rule(<<"s","s","h","_","a","n","d","_","r","a","n","g","e">>, 10,
           [MatchDefault EXCEPT !.port = Some(<<"2","2",",","1","0","0","0","-","2","0","0","0">>)],
           Some(RuleWhen(None)), None,
           Action(Some(<<"s","l","o","w">>), None, None, None, None)),
      Rule(<<"o","n","l","y","_","u","d","p">>, 100,
           [MatchDefault EXCEPT !.protocol = Some(<<"u","d","p">>), !.rtt_ms = Some(<<"<","="," ","2","0">>)],
           None, None, Action(Some(<<"s","l","o","w">>), None, None, None, None)) }

EngineSources ==
    {YamlSource(YamlBad)}
    \cup {YamlSource(YamlDoc(rules)) : rules \in seqs_upto(EngineRules, MaxRules)}

EngineContexts ==
    { MatchContextDefault,
      MatchContext(None, Some(<<"t","c","p">>), Some(443), None, None),
      MatchContext(Some(<<"A",".","Z","o","o","m",".","u","s">>), Some(<<"t","c","p">>), Some(443), Some(150), None),
      MatchContext(Some(<<"z","o","o","m",".","u","s">>), None, Some(22), Some(100), Some(5)),
      MatchContext(None, Some(<<"U","D","P">>), Some(1500), None, Some(20)) }

(***************************************************************************)
(* Planning and rendering of a decision: plan_action, render_backend       *)
(***************************************************************************)
RouteNames == {<<"f","a","s","t">>, <<"b","u","l","k">>}
OptNames == {None} \cup {Some(n) : n \in RouteNames}
OptBools == {None, Some(TRUE), Some(FALSE)}
\* every combination of present fields, validated or not
PlanActions ==
    {Action(r, s, b, t, l) : r \in OptNames, s \in OptNames, b \in OptBools,
                             t \in OptNames, l \in OptBools}
\* hash values of DefaultHasher, below and above the mask
HashValues == {0, 65535, 65536, 305419896}
Hashers == [RouteNames -> HashValues]
BackendContexts ==
    { MatchContextDefault,
      MatchContext(None, Some(<<"u","d","p">>), None, None, None),
      MatchContext(None, None, Some(443), None, None),
      MatchContext(Some(<<"a",".","b">>), Some(<<"t","c","p">>), Some(443), Some(150), Some(20)),
      MatchContext(None, Some(<<"t","c","p">>), Some(443), None, None),
      MatchContext(Some(<<"z",".","u","s">>), Some(<<"u","d","p">>), Some(65535), None, Some(5)) }

PlanInit ==
    /\ hasher \in Hashers
    /\ plan_arg \in PlanActions
    /\ plan_decision = None
    /\ backend_ctx = MatchContextDefault
    /\ backend_plan = None
PlanIdle ==
    /\ hasher = [n \in RouteNames |-> 0]
    /\ plan_arg = NoAction
    /\ plan_decision = None
    /\ backend_ctx = MatchContextDefault
    /\ backend_plan = None

PlanAction ==
    /\ plan_decision = None
    /\ plan_decision' = Some(plan_action(plan_arg))
    /\ UNCHANGED <<hasher, plan_arg, backend_ctx, backend_plan>>
    /\ UNCHANGED <<coreVars, xrayVars, runVars>>

RenderBackend(backend, c) ==
    /\ plan_decision # None
    /\ backend_plan = None
    /\ backend_ctx' = c
    /\ backend_plan' = Some(render_backend(backend, c, unwrap(plan_decision), hasher))
    /\ UNCHANGED <<hasher, plan_arg, plan_decision>>
    /\ UNCHANGED <<coreVars, xrayVars, runVars>>

(***************************************************************************)
(* The proxy-link codec and the outbound assembler as a transition system  *)
(***************************************************************************)
MaxUrls == 2
UriPool == {Uri[k] : k \in DOMAIN Uri}
UrlLists == seqs_upto(UriPool, MaxUrls)
\* nodes for build_xray_config: the nodes the codec accepts, and one that
\* did not pass through it
AcceptedNodes ==
    {parse_proxy_urls(<<u>>).value[1] : u \in {v \in UriPool : parse_proxy_urls(<<v>>).ok}}
NodePool ==
    AcceptedNodes
    \cup {[ProxyNodeDefault EXCEPT !.tag = <<"x">>, !.protocol = <<"w","g">>]}
NodeLists == seqs_upto(NodePool, MaxUrls)

XrayInit(urls, nodes) ==
    /\ xray_urls \in urls
    /\ xray_nodes \in nodes
    /\ xray_result = None
    /\ xray_config = None
XrayIdle == XrayInit({<<>>}, {<<>>})

\* a call of parse_proxy_urls
ParseProxyUrls ==
    /\ xray_result = None
    /\ xray_result' = Some(parse_proxy_urls(xray_urls))
    /\ UNCHANGED <<xray_urls, xray_nodes, xray_config>>
    /\ UNCHANGED <<coreVars, planVars, runVars>>

\* handle_xray_gen: no call on an empty list; the configuration is built
\* from the parsed nodes when parsing succeeds
XrayGen ==
    LET gen(nodes) ==
            /\ xray_result' = Some(nodes)
            /\ IF nodes.ok
               THEN /\ xray_nodes' = nodes.value
                    /\ xray_config' = Some(build_xray_config(nodes.value))
               ELSE UNCHANGED <<xray_nodes, xray_config>>
    IN /\ xray_result = None
       /\ xray_urls # <<>>
       /\ gen(parse_proxy_urls(xray_urls))
       /\ UNCHANGED xray_urls
       /\ UNCHANGED <<coreVars, planVars, runVars>>

\* a call of build_xray_config
BuildXrayConfig ==
    /\ xray_result = None
    /\ xray_config = None
    /\ xray_config' = Some(build_xray_config(xray_nodes))
    /\ UNCHANGED <<xray_urls, xray_result, xray_nodes>>
    /\ UNCHANGED <<coreVars, planVars, runVars>>

(***************************************************************************)
(* cmd/netpolicyd/main.rs: XrayManager, the proxy child process            *)
(***************************************************************************)
\* A child is named by its pid, the order in which it was spawned. Its
\* status is "running", "exited" (terminated on its own and not waited
\* for yet) or "reaped" (waited for).
MaxSpawns == 5

Manager(proc, procs) == [process |-> proc, children |-> procs]
Returned(m, result) == [mgr |-> m, result |-> result]
\* XrayManager::new
ManagerNew == Manager(None, <<>>)

\* child.try_wait() gives Ok(Some(_)) for a child that has exited
refresh_status(m) ==
    IF is_some(m.process) /\ m.children[unwrap(m.process)] = "exited"
    THEN Manager(None, [m.children EXCEPT ![unwrap(m.process)] = "reaped"])
    ELSE m

\* OpenOptions::open of the log and Command::spawn: what the attempt came to
SpawnOutcomes == {"spawned", "log_not_opened", "not_spawned"}
spawn(m, spawned) ==
    IF spawned = "log_not_opened" THEN Returned(m, Err("Start", "failed to open xray log"))
    ELSE IF spawned = "not_spawned" THEN Returned(m, Err("Start", "failed to start xray"))
    ELSE Returned(Manager(Some(Len(m.children) + 1), Append(m.children, "running")), OkUnit)

\* start without the test of self.process
start_unguarded(m, spawned) == spawn(refresh_status(m), spawned)

start(m, spawned) ==
    IF is_some(refresh_status(m).process) THEN Returned(refresh_status(m), OkUnit)
    ELSE spawn(refresh_status(m), spawned)

\* process.take(), child.kill(), child.wait()
take_kill_wait(m) ==
    IF is_some(m.process)
    THEN Manager(None, [m.children EXCEPT ![unwrap(m.process)] = "reaped"])
    ELSE m
stop(m) == Returned(take_kill_wait(refresh_status(m)), OkUnit)

restart(m, spawned) ==
    IF ~stop(m).result.ok THEN stop(m) ELSE start(stop(m).mgr, spawned)

XrayStatusResponse(running, pid) ==
    [ok |-> TRUE, running |-> running, pid |-> pid, error |-> None]
\* status without the call of refresh_status
status_unrefreshed(m) ==
    Returned(m, XrayStatusResponse(is_some(m.process), m.process))
status(m) ==
    Returned(refresh_status(m),
             XrayStatusResponse(is_some(refresh_status(m).process), refresh_status(m).process))

ManagerInit ==
    /\ process = None
    /\ children = <<>>
    /\ mgr_call = [op |-> "new", before |-> ManagerNew, after |-> ManagerNew, result |-> OkUnit]
ManagerIdle == ManagerInit

\* the record of a call: ret is what the method returned for the manager
\* as it was
Called(op, ret) ==
    [op |-> op, before |-> Manager(process, children), after |-> ret.mgr, result |-> ret.result]

\* handle_xray_start, under the manager's lock
XrayStart(spawned) ==
    /\ Len(children) < MaxSpawns
    /\ process' = start(Manager(process, children), spawned).mgr.process
    /\ children' = start(Manager(process, children), spawned).mgr.children
    /\ mgr_call' = Called("start", start(Manager(process, children), spawned))
    /\ UNCHANGED <<coreVars, planVars, xrayVars, liveVars, telVars>>
\* handle_xray_stop
XrayStop ==
    /\ process' = stop(Manager(process, children)).mgr.process
    /\ children' = stop(Manager(process, children)).mgr.children
    /\ mgr_call' = Called("stop", stop(Manager(process, children)))
    /\ UNCHANGED <<coreVars, planVars, xrayVars, liveVars, telVars>>
\* handle_xray_restart
XrayRestart(spawned) ==
    /\ Len(children) < MaxSpawns
    /\ process' = restart(Manager(process, children), spawned).mgr.process
    /\ children' = restart(Manager(process, children), spawned).mgr.children
    /\ mgr_call' = Called("restart", restart(Manager(process, children), spawned))
    /\ UNCHANGED <<coreVars, planVars, xrayVars, liveVars, telVars>>
\* handle_xray_status
XrayStatus ==
    /\ process' = status(Manager(process, children)).mgr.process
    /\ children' = status(Manager(process, children)).mgr.children
    /\ mgr_call' = Called("status", status(Manager(process, children)))
    /\ UNCHANGED <<coreVars, planVars, xrayVars, liveVars, telVars>>

\* the child exits on its own
ChildExit(pid) ==
    /\ children[pid] = "running"
    /\ children' = [children EXCEPT ![pid] = "exited"]
    /\ UNCHANGED <<process, mgr_call>>
    /\ UNCHANGED <<coreVars, planVars, xrayVars, liveVars, telVars>>

(***************************************************************************)
(* cmd/netpolicyd/main.rs: run_live, the live loop with hot reload         *)
(***************************************************************************)
\* The file at args.config_path: whether it exists and can be read, what
\* serde_yaml makes of its text, and its modification time.
MaxMtime == 2
RuleFile(exists, readable, yaml, stamp) ==
    [exists |-> exists, readable |-> readable, yaml |-> yaml, stamp |-> stamp]

\* fs::metadata(path).ok().and_then(|m| m.modified().ok())
file_mtime(f) == IF f.exists THEN Some(f.stamp) ELSE None

\* fs::read_to_string and parse_ruleset, the error turned into a String
load_ruleset(f) ==
    IF ~f.exists \/ ~f.readable THEN Err("String", "read")
    ELSE IF ~parse_ruleset(f.yaml).ok THEN Err("String", parse_ruleset(f.yaml).text)
    ELSE parse_ruleset(f.yaml)

changed(prev, now) ==
    IF is_some(prev) /\ is_some(now) THEN unwrap(now) > unwrap(prev)
    ELSE prev = None /\ is_some(now)

Reloaded(rules, stamp, outcome) ==
    [ruleset |-> rules, last_modified |-> stamp, reload |-> outcome]

\* the reload step with a failed load emptying the ruleset in use
hot_reload_drop_on_failure(args, f, rules, stamp) ==
    IF ~args.hot_reload \/ ~changed(stamp, file_mtime(f)) THEN Reloaded(rules, stamp, "none")
    ELSE IF load_ruleset(f).ok THEN Reloaded(load_ruleset(f).value, file_mtime(f), "ok")
    ELSE Reloaded(<<>>, stamp, "failed")

\* the reload step at the head of the loop
hot_reload(args, f, rules, stamp) ==
    IF ~args.hot_reload \/ ~changed(stamp, file_mtime(f)) THEN Reloaded(rules, stamp, "none")
    ELSE IF load_ruleset(f).ok THEN Reloaded(load_ruleset(f).value, file_mtime(f), "ok")
    ELSE Reloaded(rules, stamp, "failed")

(* ---- src/core/inspector.rs: what one inspection of the system gives ---- *)
ConnectionMeta(sni, ip, port, protocol, rtt_ms, latency_ms, error_rate) ==
    [sni |-> sni, ip |-> ip, port |-> port, protocol |-> protocol,
     rtt_ms |-> rtt_ms, latency_ms |-> latency_ms, error_rate |-> error_rate]
\* ConnectionMeta::default()
ConnectionMetaDefault == ConnectionMeta(None, None, None, None, None, None, None)

ConnectionTarget(ip, port, protocol) == [ip |-> ip, port |-> port, protocol |-> protocol]

\* one run of ss: whether it could be run, whether it exited with success, the
\* first usable line of its output (target and round trip time) if there is
\* one, and what the SNI map holds for that target
SsRun(spawned, success, found, sni) ==
    [spawned |-> spawned, success |-> success, found |-> found, sni |-> sni]
Found(target, rtt) == [target |-> target, rtt |-> rtt]

query_connection(ss) ==
    IF ~ss.spawned THEN None
    ELSE IF ~ss.success THEN None
    ELSE ss.found

\* SystemInspector::inspect
inspect(ss) ==
    LET from(data) ==
            ConnectionMeta(ss.sni, Some(data.target.ip), Some(data.target.port),
                           Some(data.target.protocol), data.rtt, data.rtt, None)
    IN IF query_connection(ss) = None THEN ConnectionMetaDefault
       ELSE from(unwrap(query_connection(ss)))

to_match_context(meta) ==
    MatchContext(meta.sni, meta.protocol, meta.port, meta.latency_ms, meta.rtt_ms)

\* the rest of the pass: the decision for the inspected context, and the
\* plan of the winning rule, printed or executed
live_decision(args, rules, ctx, h) ==
    LET planned(d) ==
            IF d.ok /\ is_some(d.value.rule)
            THEN Some(render_backend(args.backend, ctx,
                          plan_action(unwrap(d.value.action)), h))
            ELSE None
        decided(d, plan) ==
            [decision |-> d, state |-> args.state, plan |-> plan,
             printed |-> IF is_some(plan) /\ ~args.apply_actions THEN unwrap(plan).commands ELSE <<>>,
             executed |-> IF is_some(plan) /\ args.apply_actions THEN unwrap(plan).commands ELSE <<>>]
        run(d) == decided(d, planned(d))
    IN run(evaluate_ruleset(rules, ctx, args.state))

NoDecision == [decision |-> None, state |-> None, plan |-> None, printed |-> <<>>, executed |-> <<>>]

Tick(op, before, f, ss, reloaded, outcome) ==
    [op |-> op, before |-> before, file |-> f, ss |-> ss,
     ctx |-> to_match_context(inspect(ss)), reload |-> reloaded.reload,
     used |-> reloaded.ruleset, decision |-> outcome.decision, state |-> outcome.state,
     plan |-> outcome.plan, printed |-> outcome.printed, executed |-> outcome.executed]

NoSs == SsRun(FALSE, FALSE, None, None)

\* run_live up to the loop: the first load succeeded
LiveInit(files, args) ==
    /\ live_args \in args
    /\ live_file \in {f \in files : load_ruleset(f).ok}
    /\ ruleset = load_ruleset(live_file).value
    /\ last_modified = file_mtime(live_file)
    /\ live_tick = Tick("load", Reloaded(<<>>, None, "none"), live_file, NoSs,
                        Reloaded(ruleset, last_modified, "ok"), NoDecision)

\* one pass of the loop
LiveTick(ss) ==
    LET pass(reloaded) ==
            /\ ruleset' = reloaded.ruleset
            /\ last_modified' = reloaded.last_modified
            /\ live_tick' = Tick("tick", Reloaded(ruleset, last_modified, live_tick.reload),
                                 live_file, ss, reloaded,
                                 live_decision(live_args, reloaded.ruleset,
                                               to_match_context(inspect(ss)), hasher))
    IN /\ pass(hot_reload(live_args, live_file, ruleset, last_modified))
       /\ UNCHANGED <<live_args, live_file>>
       /\ UNCHANGED <<coreVars, planVars, xrayVars, mgrVars, telVars>>

\* the file is written, with or without a later modification time; the
\* content of a file that cannot be read is never seen and is not kept apart
FileWrite(yaml, readable, later) ==
    /\ live_file.stamp + later <= MaxMtime
    /\ live_file' = RuleFile(TRUE, readable, IF readable THEN yaml ELSE YamlBad,
                             live_file.stamp + later)
    /\ UNCHANGED <<live_args, ruleset, last_modified, live_tick>>
    /\ UNCHANGED <<coreVars, planVars, xrayVars, mgrVars, telVars>>

\* the file is removed
FileRemove ==
    /\ live_file.exists
    /\ live_file' = RuleFile(FALSE, FALSE, YamlBad, live_file.stamp)
    /\ UNCHANGED <<live_args, ruleset, last_modified, live_tick>>
    /\ UNCHANGED <<coreVars, planVars, xrayVars, mgrVars, telVars>>

(* ---- the files and arguments offered to the live loop ---- *)
LiveRule ==
    [general |-> Rule(<<"g","e","n","e","r","a","l">>, 50, MatchAny, None, None,
                      Action(Some(<<"f","a","s","t">>), None, None, None, Some(TRUE))),
     specific |-> Rule(<<"s","p","e","c","i","f","i","c">>, 50,
                       [MatchDefault EXCEPT !.protocol = Some(<<"t","c","p">>), !.port = Some(<<"4","4","3">>)],
                       None, None, Action(None, None, None, Some(<<"b","u","l","k">>), None)),
     failover_rule |-> Rule(<<"f","a","i","l","o","v","e","r","_","r","u","l","e">>, 100, MatchAny,
                            Some(RuleWhen(Some(Single(<<"F","A","I","L","O","V","E","R">>)))), None,
                            Action(None, Some(<<"b","u","l","k">>), None, None, None)),
     bad_port |-> Rule(<<"r">>, 10, [MatchDefault EXCEPT !.port = Some(<<"9","-","1">>)],
                       None, None, RouteFast)]
LiveYamls ==
    { YamlBad,
      YamlDoc(<<>>),
      YamlDoc(<<LiveRule.general>>),
      YamlDoc(<<LiveRule.specific, LiveRule.failover_rule>>),
      YamlDoc(<<LiveRule.general, LiveRule.bad_port>>) }
LiveFiles == {RuleFile(TRUE, TRUE, yaml, 0) : yaml \in LiveYamls}
LiveArgs ==
    [hot_reload : BOOLEAN, state : {"Normal", "Failover"}, backend : {"Nftables"},
     apply_actions : BOOLEAN]
LiveTarget == ConnectionTarget("203.0.113.7", 443, <<"t","c","p">>)
\* ss cannot be run, exits with failure, lists no usable connection, or lists
\* one with a round trip time below or above the latency threshold
LiveSsRuns ==
    { SsRun(FALSE, FALSE, None, None),
      SsRun(TRUE, FALSE, None, None),
      SsRun(TRUE, TRUE, None, None),
      SsRun(TRUE, TRUE, Some(Found(LiveTarget, Some(20))), None),
      SsRun(TRUE, TRUE, Some(Found(LiveTarget, Some(200))), None) }
LiveIdle ==
    LiveInit({RuleFile(TRUE, TRUE, YamlDoc(<<LiveRule.general>>), 0)},
             {[hot_reload |-> FALSE, state |-> "Normal", backend |-> "Iptables",
               apply_actions |-> FALSE]})

(***************************************************************************)
(* src/core/telemetry.rs: the counters shared by the request handlers      *)
(***************************************************************************)
MaxCalls == 4
Threads == {1, 2}

\* the counters, in the order snapshot loads them
Counters == <<"decisions", "matches", "xray_start", "xray_stop", "xray_restart", "errors">>
CounterNames == {Counters[i] : i \in 1..Len(Counters)}

\* Telemetry::new(), and the fields of a TelemetrySnapshot
TelemetryNew ==
    [decisions |-> 0, matches |-> 0, xray_start |-> 0, xray_stop |-> 0,
     xray_restart |-> 0, errors |-> 0, last_error |-> None]

\* a step counting down
fetch_sub(value) == value - 1
\* AtomicU64::fetch_add(1, Ordering::Relaxed): one indivisible read-modify-write
\* of one counter; the value returned is not used. The counters stay far below
\* 2^64 here.
fetch_add(value) == value + 1

\* the steps of the calls, each indivisible, in program order; the lock of
\* last_error is held for one assignment or one clone only
FetchAdd(counter) == [kind |-> "fetch_add", counter |-> counter]
Load(counter) == [kind |-> "load", counter |-> counter]
StoreLastError == [kind |-> "store", counter |-> "last_error"]
CloneLastError == [kind |-> "clone", counter |-> "last_error"]

\* record_decision counting the match first
record_decision_steps_matches_first(matched) ==
    IF matched THEN <<FetchAdd("matches"), FetchAdd("decisions")>>
    ELSE <<FetchAdd("decisions")>>
record_decision_steps(matched) ==
    IF matched THEN <<FetchAdd("decisions"), FetchAdd("matches")>>
    ELSE <<FetchAdd("decisions")>>
record_xray_start_steps == <<FetchAdd("xray_start")>>
record_xray_stop_steps == <<FetchAdd("xray_stop")>>
record_xray_restart_steps == <<FetchAdd("xray_restart")>>
record_error_steps == <<FetchAdd("errors"), StoreLastError>>
snapshot_steps == <<CloneLastError>> \o [i \in 1..Len(Counters) |-> Load(Counters[i])]

\* what one step of a recording call does to the Telemetry
step_effect(tel, step, message) ==
    CASE step.kind = "fetch_add" -> [tel EXCEPT ![step.counter] = fetch_add(@)]
      [] step.kind = "store" -> [tel EXCEPT !.last_error = message]
      [] OTHER -> tel
\* what one step of snapshot adds to the TelemetrySnapshot being built
step_read(tel, step, snap) ==
    CASE step.kind = "load" -> [snap EXCEPT ![step.counter] = tel[step.counter]]
      [] step.kind = "clone" -> [snap EXCEPT !.last_error = tel.last_error]
      [] OTHER -> snap

RECURSIVE run_steps(_, _, _)
run_steps(tel, steps, message) ==
    IF steps = <<>> THEN tel
    ELSE run_steps(step_effect(tel, Head(steps), message), Tail(steps), message)
RECURSIVE read_steps(_, _, _)
read_steps(tel, steps, snap) ==
    IF steps = <<>> THEN snap
    ELSE read_steps(tel, Tail(steps), step_read(tel, Head(steps), snap))

\* the calls made with no other call running
record_decision(tel, matched) == run_steps(tel, record_decision_steps(matched), None)
record_xray_start(tel) == run_steps(tel, record_xray_start_steps, None)
record_xray_stop(tel) == run_steps(tel, record_xray_stop_steps, None)
record_xray_restart(tel) == run_steps(tel, record_xray_restart_steps, None)
record_error(tel, message) == run_steps(tel, record_error_steps, Some(message))
snapshot(tel) == read_steps(tel, snapshot_steps, TelemetryNew)

\* a thread in a call: the steps it has left, the message of record_error,
\* the snapshot being built, and the floor when the call was made
InCall(op, steps, message, floor) ==
    [op |-> op, todo |-> steps, message |-> message, snap |-> TelemetryNew, base |-> floor]
NoCall == InCall("idle", <<>>, None, TelemetryNew)
Counted(calls, decided, matched) ==
    [total |-> calls.total + 1,
     decisions |-> calls.decisions + (IF decided THEN 1 ELSE 0),
     matched |-> calls.matched + (IF matched THEN 1 ELSE 0)]
NoCalls == [total |-> 0, decisions |-> 0, matched |-> 0]
MayCall(t) == tel_threads[t].todo = <<>> /\ tel_calls.total < MaxCalls
NextStep(t, kind) == tel_threads[t].todo # <<>> /\ Head(tel_threads[t].todo).kind = kind
Raised(floor, snap) ==
    [c \in DOMAIN floor |->
        IF c \in CounterNames /\ snap[c] > floor[c] THEN snap[c] ELSE floor[c]]

TelemetryInit ==
    /\ telemetry = TelemetryNew
    /\ tel_threads = [t \in Threads |-> NoCall]
    /\ tel_calls = NoCalls
    /\ tel_floor = TelemetryNew
    /\ web_call = [op |-> "none", manager |-> ManagerNew, before |-> TelemetryNew,
                   body |-> [readable |-> FALSE, payload |-> None], result |-> OkUnit,
                   response |-> None, logged |-> None]
TelemetryIdle == TelemetryInit

CallRecordDecision(t, matched) ==
    /\ MayCall(t)
    /\ tel_threads' = [tel_threads EXCEPT ![t] =
            InCall("record_decision", record_decision_steps(matched), None, tel_floor)]
    /\ tel_calls' = Counted(tel_calls, TRUE, matched)
    /\ UNCHANGED <<telemetry, tel_floor, web_call>>
    /\ UNCHANGED <<coreVars, planVars, xrayVars, mgrVars, liveVars>>

CallRecordXrayStart(t) ==
    /\ MayCall(t)
    /\ tel_threads' = [tel_threads EXCEPT ![t] =
            InCall("record_xray_start", record_xray_start_steps, None, tel_floor)]
    /\ tel_calls' = Counted(tel_calls, FALSE, FALSE)
    /\ UNCHANGED <<telemetry, tel_floor, web_call>>
    /\ UNCHANGED <<coreVars, planVars, xrayVars, mgrVars, liveVars>>

CallRecordXrayStop(t) ==
    /\ MayCall(t)
    /\ tel_threads' = [tel_threads EXCEPT ![t] =
            InCall("record_xray_stop", record_xray_stop_steps, None, tel_floor)]
    /\ tel_calls' = Counted(tel_calls, FALSE, FALSE)
    /\ UNCHANGED <<telemetry, tel_floor, web_call>>
    /\ UNCHANGED <<coreVars, planVars, xrayVars, mgrVars, liveVars>>

CallRecordXrayRestart(t) ==
    /\ MayCall(t)
    /\ tel_threads' = [tel_threads EXCEPT ![t] =
            InCall("record_xray_restart", record_xray_restart_steps, None, tel_floor)]
    /\ tel_calls' = Counted(tel_calls, FALSE, FALSE)
    /\ UNCHANGED <<telemetry, tel_floor, web_call>>
    /\ UNCHANGED <<coreVars, planVars, xrayVars, mgrVars, liveVars>>

CallRecordError(t, message) ==
    /\ MayCall(t)
    /\ tel_threads' = [tel_threads EXCEPT ![t] =
            InCall("record_error", record_error_steps, Some(message), tel_floor)]
    /\ tel_calls' = Counted(tel_calls, FALSE, FALSE)
    /\ UNCHANGED <<telemetry, tel_floor, web_call>>
    /\ UNCHANGED <<coreVars, planVars, xrayVars, mgrVars, liveVars>>

CallSnapshot(t) ==
    /\ MayCall(t)
    /\ tel_threads' = [tel_threads EXCEPT ![t] =
            InCall("snapshot", snapshot_steps, None, tel_floor)]
    /\ tel_calls' = Counted(tel_calls, FALSE, FALSE)
    /\ UNCHANGED <<telemetry, tel_floor, web_call>>
    /\ UNCHANGED <<coreVars, planVars, xrayVars, mgrVars, liveVars>>

\* one fetch_add of a recording call
StepFetchAdd(t) ==
    /\ NextStep(t, "fetch_add")
    /\ telemetry' = step_effect(telemetry, Head(tel_threads[t].todo), tel_threads[t].message)
    /\ tel_threads' = [tel_threads EXCEPT ![t].todo = Tail(@)]
    /\ UNCHANGED <<tel_calls, tel_floor, web_call>>
    /\ UNCHANGED <<coreVars, planVars, xrayVars, mgrVars, liveVars>>

\* record_error: last_error is locked and assigned
StepStore(t) ==
    /\ NextStep(t, "store")
    /\ telemetry' = step_effect(telemetry, Head(tel_threads[t].todo), tel_threads[t].message)
    /\ tel_threads' = [tel_threads EXCEPT ![t].todo = Tail(@)]
    /\ UNCHANGED <<tel_calls, tel_floor, web_call>>
    /\ UNCHANGED <<coreVars, planVars, xrayVars, mgrVars, liveVars>>

\* snapshot: last_error is locked and cloned
StepClone(t) ==
    /\ NextStep(t, "clone")
    /\ tel_threads' = [tel_threads EXCEPT
            ![t].snap = step_read(telemetry, Head(tel_threads[t].todo), @),
            ![t].todo = Tail(@)]
    /\ UNCHANGED <<telemetry, tel_calls, tel_floor, web_call>>
    /\ UNCHANGED <<coreVars, planVars, xrayVars, mgrVars, liveVars>>

\* snapshot: one counter is loaded; the last load completes the snapshot
StepLoad(t) ==
    /\ NextStep(t, "load")
    /\ tel_threads' = [tel_threads EXCEPT
            ![t].snap = step_read(telemetry, Head(tel_threads[t].todo), @),
            ![t].todo = Tail(@)]
    /\ tel_floor' = IF Len(tel_threads[t].todo) = 1
                    THEN Raised(tel_floor, tel_threads'[t].snap)
                    ELSE tel_floor
    /\ UNCHANGED <<telemetry, tel_calls, web_call>>
    /\ UNCHANGED <<coreVars, planVars, xrayVars, mgrVars, liveVars>>

ErrorMessages == {"failed to start xray", "xray manager lock failed"}

(***************************************************************************)
(* src/cmd/netpolicyd/main.rs: the request handlers of the web server.     *)
(* The server takes one request at a time, so the manager's lock is always *)
(* free and never poisoned when a handler asks for it.                     *)
(***************************************************************************)
\* format!("{}: {}", text, cause), and a message with no cause
Message(text, cause) == [text |-> text, cause |-> cause]
Plain(text) == Message(text, None)

Handled(m, tel, result, response) ==
    [mgr |-> m, telemetry |-> tel, result |-> result, response |-> response]
XrayStatusFailed(message) ==
    [ok |-> FALSE, running |-> FALSE, pid |-> None, error |-> Some(message)]

\* the part the three handlers share: ret is what the manager's method
\* returned, recorded the telemetry with the success counted
handle_xray(ret, tel, recorded) ==
    IF ret.result.ok
    THEN Handled(status(ret.mgr).mgr, recorded, ret.result, status(ret.mgr).result)
    ELSE Handled(ret.mgr, record_error(tel, Plain(ret.result.text)), ret.result,
                 XrayStatusFailed(Plain(ret.result.text)))

handle_xray_start(m, tel, spawned) ==
    handle_xray(start(m, spawned), tel, record_xray_start(tel))
handle_xray_stop(m, tel) ==
    handle_xray(stop(m), tel, record_xray_stop(tel))
\* handle_xray_restart counting the restart whatever it came to
handle_xray_restart_counting_failures(m, tel, spawned) ==
    handle_xray(restart(m, spawned), record_xray_restart(tel), record_xray_restart(tel))
handle_xray_restart(m, tel, spawned) ==
    handle_xray(restart(m, spawned), tel, record_xray_restart(tel))
handle_xray_status(m) ==
    Handled(status(m).mgr, None, OkUnit, status(m).result)

\* parse_state of main.rs
parse_state(value) ==
    LET named(v) ==
            IF v = <<"n","o","r","m","a","l">> THEN Ok("Normal")
            ELSE IF v = <<"d","e","g","r","a","d","e","d">> THEN Ok("Degraded")
            ELSE IF v = <<"f","a","i","l","o","v","e","r">> THEN Ok("Failover")
            ELSE IF v = <<"r","e","c","o","v","e","r","y">> THEN Ok("Recovery")
            ELSE Err("String", "invalid --state value (normal|degraded|failover|recovery)")
    IN named(to_lowercase(trim(value)))

action_summary(rule) ==
    IF is_some(rule.action.route)
    THEN <<"r","o","u","t","e"," ">> \o unwrap(rule.action.route)
    ELSE IF is_some(rule.action.switch_route)
    THEN <<"s","w","i","t","c","h","_","r","o","u","t","e"," ">> \o unwrap(rule.action.switch_route)
    ELSE IF rule.action.block = Some(TRUE) THEN <<"b","l","o","c","k">>
    ELSE IF is_some(rule.action.throttle)
    THEN <<"t","h","r","o","t","t","l","e"," ">> \o unwrap(rule.action.throttle)
    ELSE <<"l","o","g">>

\* the body of a request: whether it could be read, and what serde_json makes
\* of it (None when it is no DryRunRequest)
Body(readable, payload) == [readable |-> readable, payload |-> payload]
DryRunRequest(yaml, state, context) == [ruleset |-> yaml, state |-> state, context |-> context]
DryRunResponse(ok, state, rule, action, error) ==
    [ok |-> ok, state |-> state, rule |-> rule, action |-> action, error |-> error]
Answered(tel, response, logged) == [telemetry |-> tel, response |-> response, logged |-> logged]

\* handle_dry_run recording an error and a decision for a ruleset that does
\* not parse
handle_dry_run_counting_twice(body, tel, log_file) ==
    Answered(record_decision(record_error(tel, Plain("invalid ruleset")), FALSE),
             DryRunResponse(FALSE, state_to_str("Normal"), None, None, Some(Plain("invalid ruleset"))),
             None)

handle_dry_run(body, tel, log_file) ==
    LET failed(state, message) ==
            Answered(record_error(tel, message),
                     DryRunResponse(FALSE, state_to_str(state), None, None, Some(message)), None)
        decided(rules, state, d) ==
            IF ~d.ok THEN failed(state, Message("engine error", d))
            ELSE IF is_some(d.value.rule)
            THEN Answered(record_decision(tel, TRUE),
                          DryRunResponse(TRUE, state_to_str(state),
                                         Some(rules[unwrap(d.value.rule)].name),
                                         Some(action_summary(rules[unwrap(d.value.rule)])), None),
                          IF log_file
                          THEN Some(<<state_to_str(state), rules[unwrap(d.value.rule)].name,
                                      action_summary(rules[unwrap(d.value.rule)])>>)
                          ELSE None)
            ELSE Answered(record_decision(tel, FALSE),
                          DryRunResponse(TRUE, state_to_str(state), None, None, None), None)
        parsed(state, ctx, loaded_rules) ==
            IF ~loaded_rules.ok THEN failed(state, Message("invalid ruleset", loaded_rules))
            ELSE decided(loaded_rules.value, state,
                         evaluate_ruleset(loaded_rules.value, ctx, state))
        with_state(payload, state) ==
            parsed(state, unwrap_or(payload.context, MatchContextDefault),
                   parse_ruleset(payload.ruleset))
        decoded(payload) ==
            with_state(payload,
                       IF is_some(payload.state) /\ parse_state(unwrap(payload.state)).ok
                       THEN parse_state(unwrap(payload.state)).value
                       ELSE "Normal")
    IN IF ~body.readable THEN failed("Normal", Plain("failed to read request"))
       ELSE IF body.payload = None THEN failed("Normal", Plain("invalid json"))
       ELSE decoded(unwrap(body.payload))

\* the records made so far, and how many the handlers may make
MaxRecords == 3
Recorded(tel) ==
    tel.decisions + tel.xray_start + tel.xray_stop + tel.xray_restart + tel.errors
WebCall(op, m, tel, body, result, response, logged) ==
    [op |-> op, manager |-> m, before |-> tel, body |-> body, result |-> result,
     response |-> response, logged |-> logged]
NoBody == Body(FALSE, None)

\* start_web_server up to the loop: the manager and the telemetry are made,
\* and with --xray-autostart the child is started
WebInit(autostarts) ==
    \E autostart \in autostarts :
        LET begun(ret) ==
                /\ process = ret.mgr.process
                /\ children = ret.mgr.children
                /\ mgr_call = [op |-> "new", before |-> ManagerNew, after |-> ret.mgr,
                               result |-> ret.result]
                /\ telemetry = IF autostart # "off" /\ ret.result.ok
                               THEN record_xray_start(TelemetryNew) ELSE TelemetryNew
        IN /\ begun(IF autostart = "off" THEN Returned(ManagerNew, OkUnit)
                    ELSE start(ManagerNew, autostart))
           /\ tel_threads = [t \in Threads |-> NoCall]
           /\ tel_calls = NoCalls
           /\ tel_floor = TelemetryNew
           /\ web_call = WebCall("none", ManagerNew, TelemetryNew, NoBody, OkUnit, None, None)

HandleXrayStart(spawned) ==
    LET handled(h) ==
            /\ process' = h.mgr.process
            /\ children' = h.mgr.children
            /\ telemetry' = h.telemetry
            /\ web_call' = WebCall("start", Manager(process, children), telemetry, NoBody,
                                   h.result, Some(h.response), None)
    IN /\ Len(children) < MaxSpawns
       /\ Recorded(telemetry) < MaxRecords
       /\ handled(handle_xray_start(Manager(process, children), telemetry, spawned))
       /\ mgr_call' = Called("start", start(Manager(process, children), spawned))
       /\ UNCHANGED <<tel_threads, tel_calls, tel_floor>>
       /\ UNCHANGED <<coreVars, planVars, xrayVars, liveVars>>

HandleXrayStop ==
    LET handled(h) ==
            /\ process' = h.mgr.process
            /\ children' = h.mgr.children
            /\ telemetry' = h.telemetry
            /\ web_call' = WebCall("stop", Manager(process, children), telemetry, NoBody,
                                   h.result, Some(h.response), None)
    IN /\ Recorded(telemetry) < MaxRecords
       /\ handled(handle_xray_stop(Manager(process, children), telemetry))
       /\ mgr_call' = Called("stop", stop(Manager(process, children)))
       /\ UNCHANGED <<tel_threads, tel_calls, tel_floor>>
       /\ UNCHANGED <<coreVars, planVars, xrayVars, liveVars>>

HandleXrayRestart(spawned) ==
    LET handled(h) ==
            /\ process' = h.mgr.process
            /\ children' = h.mgr.children
            /\ telemetry' = h.telemetry
            /\ web_call' = WebCall("restart", Manager(process, children), telemetry, NoBody,
                                   h.result, Some(h.response), None)
    IN /\ Len(children) < MaxSpawns
       /\ Recorded(telemetry) < MaxRecords
       /\ handled(handle_xray_restart(Manager(process, children), telemetry, spawned))
       /\ mgr_call' = Called("restart", restart(Manager(process, children), spawned))
       /\ UNCHANGED <<tel_threads, tel_calls, tel_floor>>
       /\ UNCHANGED <<coreVars, planVars, xrayVars, liveVars>>

HandleXrayStatus ==
    LET handled(h) ==
            /\ process' = h.mgr.process
            /\ children' = h.mgr.children
            /\ web_call' = WebCall("status", Manager(process, children), telemetry, NoBody,
                                   h.result, Some(h.response), None)
    IN /\ handled(handle_xray_status(Manager(process, children)))
       /\ mgr_call' = Called("status", status(Manager(process, children)))
       /\ UNCHANGED <<telemetry, tel_threads, tel_calls, tel_floor>>
       /\ UNCHANGED <<coreVars, planVars, xrayVars, liveVars>>

\* GET /api/telemetry
HandleTelemetry ==
    /\ web_call' = WebCall("telemetry", Manager(process, children), telemetry, NoBody,
                           OkUnit, Some(snapshot(telemetry)), None)
    /\ UNCHANGED <<telemetry, tel_threads, tel_calls, tel_floor>>
    /\ UNCHANGED <<coreVars, planVars, xrayVars, mgrVars, liveVars>>

\* POST /api/dry-run
HandleDryRun(body, log_file) ==
    LET handled(h) ==
            /\ telemetry' = h.telemetry
            /\ web_call' = WebCall("dry_run", Manager(process, children), telemetry, body,
                                   OkUnit, Some(h.response), h.logged)
    IN /\ Recorded(telemetry) < MaxRecords
       /\ handled(handle_dry_run(body, telemetry, log_file))
       /\ UNCHANGED <<tel_threads, tel_calls, tel_floor>>
       /\ UNCHANGED <<coreVars, planVars, xrayVars, mgrVars, liveVars>>

(* ---- the requests offered to the handlers ---- *)
DryRunTcp == MatchContext(None, Some(<<"t","c","p">>), Some(443), None, None)
DryRunRules == YamlDoc(<<LiveRule.specific, LiveRule.failover_rule>>)
\* a body that cannot be read, one that is no JSON request, rulesets that do
\* not parse or validate, and requests that select a rule or none
DryRunBodies ==
    { Body(FALSE, None),
      Body(TRUE, None),
      Body(TRUE, Some(DryRunRequest(YamlBad, None, None))),
      Body(TRUE, Some(DryRunRequest(YamlDoc(<<LiveRule.general, LiveRule.bad_port>>), None, None))),
      Body(TRUE, Some(DryRunRequest(DryRunRules, Some(<<" ","F","a","i","l","o","v","e","r">>), None))),
      Body(TRUE, Some(DryRunRequest(DryRunRules, None, None))),
      Body(TRUE, Some(DryRunRequest(DryRunRules, Some(<<"u","p">>), Some(DryRunTcp)))) }
Autostarts == {"off"} \cup SpawnOutcomes

RunIdle == ManagerIdle /\ LiveIdle /\ TelemetryIdle
DaemonIdle == PlanIdle /\ XrayIdle /\ RunIdle

(***************************************************************************)
(* Specifications                                                          *)
(***************************************************************************)
\* the operational state machine
InitSM == SmInit /\ RuleIdle /\ PortIdle /\ SniIdle /\ DaemonIdle
NextSM ==
    \/ \E s \in EngineStates : SmSetState(s)
    \/ \E l \in LatencyInputs, e \in ErrorRateInputs : SmTransition(l, e)
SpecSM == InitSM /\ [][NextSM]_vars

\* the two ruleset parsers
InitRules == RuleInit(YamlSources \cup DslSources) /\ SmIdle /\ PortIdle /\ SniIdle /\ DaemonIdle
NextRules ==
    \/ ParseRuleset
    \/ ParseDsl
SpecRules == InitRules /\ [][NextRules]_vars

\* parse_dsl on texts of several rule blocks
InitDsl == RuleInit(DslBlockSources) /\ SmIdle /\ PortIdle /\ SniIdle /\ DaemonIdle
NextDsl == ParseDsl
SpecDsl == InitDsl /\ [][NextDsl]_vars

\* a YAML ruleset parsed, then evaluated
InitEngine == RuleInit(EngineSources) /\ SmIdle /\ PortIdle /\ SniIdle /\ DaemonIdle
NextEngine ==
    \/ ParseRuleset
    \/ \E c \in EngineContexts, state \in EngineStates : Evaluate(c, state)
SpecEngine == InitEngine /\ [][NextEngine]_vars

\* a port pattern validated, then matched
InitPort == PortInit /\ SmIdle /\ RuleIdle /\ SniIdle /\ DaemonIdle
NextPort ==
    \/ ValidatePort
    \/ \E p \in PortArgs : MatchPort(p)
SpecPort == InitPort /\ [][NextPort]_vars

\* an sni pattern matched
InitSni == SniInit /\ SmIdle /\ RuleIdle /\ PortIdle /\ DaemonIdle
NextSni == MatchSni
SpecSni == InitSni /\ [][NextSni]_vars

\* planning the action of a decision and rendering it for a backend
InitPlan == PlanInit /\ SmIdle /\ RuleIdle /\ PortIdle /\ SniIdle /\ XrayIdle /\ RunIdle
NextPlan ==
    \/ PlanAction
    \/ \E backend \in BackendKinds, c \in BackendContexts : RenderBackend(backend, c)
SpecPlan == InitPlan /\ [][NextPlan]_vars

\* the codec, and the xray-gen handler that builds from what it parsed
InitXray ==
    /\ XrayInit(UrlLists, {<<>>})
    /\ SmIdle /\ RuleIdle /\ PortIdle /\ SniIdle /\ PlanIdle /\ RunIdle
NextXray ==
    \/ ParseProxyUrls
    \/ XrayGen
SpecXray == InitXray /\ [][NextXray]_vars

\* the assembler on any list of nodes
InitBuild ==
    /\ XrayInit({<<>>}, NodeLists)
    /\ SmIdle /\ RuleIdle /\ PortIdle /\ SniIdle /\ PlanIdle /\ RunIdle
NextBuild == BuildXrayConfig
SpecBuild == InitBuild /\ [][NextBuild]_vars

\* the proxy child manager and its child
InitManager ==
    /\ ManagerInit /\ LiveIdle /\ TelemetryIdle
    /\ SmIdle /\ RuleIdle /\ PortIdle /\ SniIdle /\ PlanIdle /\ XrayIdle
NextManager ==
    \/ \E spawned \in SpawnOutcomes : XrayStart(spawned)
    \/ XrayStop
    \/ \E spawned \in SpawnOutcomes : XrayRestart(spawned)
    \/ XrayStatus
    \/ \E pid \in 1..Len(children) : ChildExit(pid)
SpecManager == InitManager /\ [][NextManager]_vars

\* the live loop and the ruleset file
InitLive ==
    /\ LiveInit(LiveFiles, LiveArgs) /\ ManagerIdle /\ TelemetryIdle
    /\ SmIdle /\ RuleIdle /\ PortIdle /\ SniIdle /\ PlanIdle /\ XrayIdle
NextLive ==
    \/ \E ss \in LiveSsRuns : LiveTick(ss)
    \/ \E yaml \in LiveYamls, readable \in BOOLEAN, later \in 0..1 :
          FileWrite(yaml, readable, later)
    \/ FileRemove
SpecLive == InitLive /\ [][NextLive]_vars

InitTelemetry ==
    /\ TelemetryInit
    /\ ManagerIdle /\ LiveIdle /\ SmIdle /\ RuleIdle /\ PortIdle /\ SniIdle /\ PlanIdle /\ XrayIdle
NextTelemetry ==
    \/ \E t \in Threads, matched \in BOOLEAN : CallRecordDecision(t, matched)
    \/ \E t \in Threads : CallRecordXrayStart(t)
    \/ \E t \in Threads : CallRecordXrayStop(t)
    \/ \E t \in Threads : CallRecordXrayRestart(t)
    \/ \E t \in Threads, message \in ErrorMessages : CallRecordError(t, message)
    \/ \E t \in Threads : CallSnapshot(t)
    \/ \E t \in Threads : StepFetchAdd(t)
    \/ \E t \in Threads : StepStore(t)
    \/ \E t \in Threads : StepClone(t)
    \/ \E t \in Threads : StepLoad(t)
SpecTelemetry == InitTelemetry /\ [][NextTelemetry]_vars

InitWeb ==
    /\ WebInit(Autostarts)
    /\ LiveIdle /\ SmIdle /\ RuleIdle /\ PortIdle /\ SniIdle /\ PlanIdle /\ XrayIdle
NextWeb ==
    \/ \E spawned \in SpawnOutcomes : HandleXrayStart(spawned)
    \/ HandleXrayStop
    \/ \E spawned \in SpawnOutcomes : HandleXrayRestart(spawned)
    \/ HandleXrayStatus
    \/ HandleTelemetry
    \/ \E body \in DryRunBodies, log_file \in BOOLEAN : HandleDryRun(body, log_file)
    \/ \E pid \in 1..Len(children) : ChildExit(pid)
SpecWeb == InitWeb /\ [][NextWeb]_vars

(***************************************************************************)
(* Properties                                                              *)
(***************************************************************************)
\* the ruleset the parser returned and the decision of the evaluation
LoadedRules == unwrap(loaded).value
Evaluated == decision # None /\ unwrap(decision).ok
Decided == unwrap(decision).value

\* the lower-case name of each engine state
StateNameLower ==
    [Normal |-> <<"n","o","r","m","a","l">>, Degraded |-> <<"d","e","g","r","a","d","e","d">>,
     Failover |-> <<"f","a","i","l","o","v","e","r">>, Recovery |-> <<"r","e","c","o","v","e","r","y">>]
\* the selector names the state, letter case and surrounding blanks aside
SelectorNames(selector, state) ==
    LET items == IF selector.tag = "Single" THEN {selector.s}
                 ELSE {selector.list[i] : i \in 1..Len(selector.list)}
    IN \E item \in items : to_lowercase(trim(item)) = StateNameLower[state]
Disabled(rule, state) ==
    rule.disable # None /\ SelectorNames(rule.disable[1], state)
HasWhenState(rule) == rule.when # None /\ rule.when[1].state # None
Admitted(rule, state) ==
    HasWhenState(rule) => SelectorNames(rule.when[1].state[1], state)
Eligible(rule, state) == ~Disabled(rule, state) /\ Admitted(rule, state)

\* the indices of the rules that are eligible and match in the evaluation
Candidates ==
    {i \in 1..Len(LoadedRules) :
        /\ Eligible(LoadedRules[i], eval_state)
        /\ rule_matches(LoadedRules[i].match, eval_ctx)}
\* the present predicate fields of a match
PredicateFields(m) ==
    {f \in {"sni", "protocol", "port", "latency_ms", "rtt_ms"} : m[f] # None}
IsWildcard(rule) == rule.match.any = Some(TRUE)
Specificity(rule) ==
    IF IsWildcard(rule) THEN 0 ELSE Cardinality(PredicateFields(rule.match))
\* rule a precedes rule b in the order (priority, specificity)
RankBelow(a, b) ==
    \/ a.priority < b.priority
    \/ a.priority = b.priority /\ Specificity(a) < Specificity(b)
SameRank(a, b) == a.priority = b.priority /\ Specificity(a) = Specificity(b)

\* C1: a successful evaluation of a validated ruleset returns NoMatch, or a
\* rule of that ruleset that is eligible in the state and matches the context
C1_WinnerEligibleAndMatching ==
    Evaluated =>
        \/ Decided.kind = "NoMatch"
        \/ /\ Decided.rule # None
           /\ unwrap(Decided.rule) \in 1..Len(LoadedRules)
           /\ unwrap(Decided.rule) \in Candidates
C1_Witness ==
    /\ Evaluated
    /\ Decided.kind = "Action"
    /\ \E i \in 1..Len(LoadedRules) :
          /\ ~Eligible(LoadedRules[i], eval_state)
          /\ rule_matches(LoadedRules[i].match, eval_ctx)
          /\ RankBelow(LoadedRules[unwrap(Decided.rule)], LoadedRules[i])

\* C2: the winner is a candidate of maximal (priority, specificity), and the
\* first such candidate in the input order
C2_WinnerFirstMaximum ==
    (Evaluated /\ Candidates # {}) =>
        /\ Decided.rule # None
        /\ LET w == unwrap(Decided.rule) IN
           /\ w \in Candidates
           /\ \A i \in Candidates : ~RankBelow(LoadedRules[w], LoadedRules[i])
           /\ \A i \in Candidates :
                 SameRank(LoadedRules[w], LoadedRules[i]) => w <= i
C2_Witness ==
    /\ Evaluated
    /\ Decided.rule # None
    /\ \E i \in Candidates :
          /\ i > unwrap(Decided.rule)
          /\ SameRank(LoadedRules[unwrap(Decided.rule)], LoadedRules[i])
          /\ LoadedRules[i].name # LoadedRules[unwrap(Decided.rule)].name
          /\ LoadedRules[i].action # LoadedRules[unwrap(Decided.rule)].action

\* C3: on a non-empty ruleset the decision is NoMatch, with no rule and no
\* action, exactly when no rule is eligible and matching; otherwise it is
\* Action with the rule and that rule's action
C3_NoMatchIffNoCandidate ==
    Evaluated =>
        IF Candidates = {}
        THEN Decided.kind = "NoMatch" /\ Decided.rule = None /\ Decided.action = None
        ELSE /\ Decided.kind = "Action"
             /\ Decided.rule # None
             /\ Decided.action = Some(LoadedRules[unwrap(Decided.rule)].action)
C3_Witness ==
    /\ Evaluated
    /\ Decided.kind = "Action"
    /\ \E i \in 1..Len(LoadedRules) :
          /\ i < unwrap(Decided.rule)
          /\ Eligible(LoadedRules[i], eval_state)
          /\ ~rule_matches(LoadedRules[i].match, eval_ctx)
          /\ LoadedRules[i].priority > LoadedRules[unwrap(Decided.rule)].priority

\* C4: rule_applies_state holds exactly of the rules whose disable selector
\* does not name the state and whose when.state selector, if any, names it
C4_EligibilityRule ==
    decision # None =>
        \A i \in 1..Len(LoadedRules) :
            rule_applies_state(LoadedRules[i], eval_state)
                <=> Eligible(LoadedRules[i], eval_state)
C4_Witness ==
    /\ decision # None
    /\ \E i \in 1..Len(LoadedRules) :
          /\ Disabled(LoadedRules[i], eval_state)
          /\ HasWhenState(LoadedRules[i])
          /\ Admitted(LoadedRules[i], eval_state)
          /\ ~rule_applies_state(LoadedRules[i], eval_state)
          /\ rule_matches(LoadedRules[i].match, eval_ctx)
          /\ Decided.rule # Some(i)

\* C5: a rule with any: true has specificity 0 and matches every context,
\* so it never wins over a candidate of the same priority that has a
\* predicate field and no any: true, wherever the two stand in the ruleset
C5_WildcardLosesTie ==
    Evaluated =>
        \A i \in 1..Len(LoadedRules) :
            IsWildcard(LoadedRules[i]) =>
                /\ specificity(LoadedRules[i]) = 0
                /\ rule_matches(LoadedRules[i].match, eval_ctx)
                /\ \A j \in Candidates :
                      (/\ ~IsWildcard(LoadedRules[j])
                       /\ PredicateFields(LoadedRules[j].match) # {}
                       /\ LoadedRules[j].priority = LoadedRules[i].priority)
                      => Decided.rule # Some(i)
C5_Witness ==
    /\ Evaluated
    /\ \E i, j \in Candidates :
          /\ i < j
          /\ IsWildcard(LoadedRules[i])
          /\ Cardinality(PredicateFields(LoadedRules[i].match))
                >= Cardinality(PredicateFields(LoadedRules[j].match))
          /\ ~IsWildcard(LoadedRules[j])
          /\ LoadedRules[j].priority = LoadedRules[i].priority
          /\ Decided.rule = Some(j)

\* C6: one call of StateMachine::transition follows the table, with
\* bad = latency_ms > 120 or error_rate > 0.05 and absent inputs healthy
C6_Bad ==
    \/ (sm_latency # None /\ sm_latency[1] > 120)
    \/ (sm_error # None /\ ~sm_error[1].nan /\ sm_error[1].v > 50)
C6_Table ==
    [Normal |-> [bad |-> "Degraded", healthy |-> "Normal"],
     Degraded |-> [bad |-> "Failover", healthy |-> "Recovery"],
     Failover |-> [bad |-> "Failover", healthy |-> "Recovery"],
     Recovery |-> [bad |-> "Degraded", healthy |-> "Normal"]]
C6_TransitionTable ==
    sm_op = "transition" =>
        sm_state = (IF C6_Bad THEN C6_Table[sm_prev].bad ELSE C6_Table[sm_prev].healthy)
C6_Witness ==
    /\ sm_op = "transition"
    /\ sm_prev = "Degraded"
    /\ sm_latency = Some(120)
    /\ sm_error = Some(F32(50))
    /\ sm_state = "Recovery"

\* the primaries present in an action
Primaries(a) ==
    {f \in {"route", "switch_route", "throttle"} : a[f] # None}
    \cup (IF a.block = Some(TRUE) THEN {"block"} ELSE {})
\* the rules of the text handed to the parser, when it decodes to rules
SourceRules == IF source.kind = "yaml" /\ source.yaml.decoded THEN source.yaml.rules ELSE <<>>

\* C7: validation accepts an action exactly when it has one primary; a
\* ruleset with an action of no or several primaries is rejected with an
\* Invalid error and no ruleset
C7_ExactlyOnePrimary ==
    loaded # None =>
        /\ unwrap(loaded).ok =>
              \A i \in 1..Len(LoadedRules) :
                  Cardinality(Primaries(LoadedRules[i].action)) = 1
        /\ \A i \in 1..Len(SourceRules) :
              /\ validate_action(SourceRules[i].action).ok
                    <=> Cardinality(Primaries(SourceRules[i].action)) = 1
              /\ Cardinality(Primaries(SourceRules[i].action)) # 1 =>
                    /\ ~unwrap(loaded).ok
                    /\ unwrap(loaded).kind = "Invalid"
                    /\ "value" \notin DOMAIN unwrap(loaded)
C7_Witness ==
    /\ loaded # None
    /\ Len(SourceRules) = 1
    /\ SourceRules[1].action = [NoAction EXCEPT !.log = Some(TRUE)]
    /\ unwrap(loaded) = Err("Invalid", "action must include one primary action")

\* the pattern entry is a single u16, or a range lo-hi of u16 with lo <= hi
WellFormedEntry(entry) ==
    LET t == trim(entry) IN
    /\ t # <<>>
    /\ \/ parse_u16(t) # None
       \/ \E k \in 1..Len(t) :
             LET lo == parse_u16(trim(SubSeq(t, 1, k - 1)))
                 hi == parse_u16(trim(SubSeq(t, k + 1, Len(t))))
             IN t[k] = "-" /\ lo # None /\ hi # None /\ lo[1] <= hi[1]
WellFormedPattern(pattern) ==
    LET entries == split(pattern, ",") IN
    \A i \in 1..Len(entries) : WellFormedEntry(entries[i])

\* C8: every rule of a ruleset a parser returns that carries a port pattern
\* carries a well-formed one, rules with any: true included
C8_PortPatternsWellFormed ==
    (loaded # None /\ unwrap(loaded).ok) =>
        \A i \in 1..Len(LoadedRules) :
            LoadedRules[i].match.port # None =>
                WellFormedPattern(unwrap(LoadedRules[i].match.port))

\* the pattern entry covers port p: it is the value p, or a range around p
EntryCovers(entry, p) ==
    LET t == trim(entry) IN
    \/ parse_u16(t) = Some(p)
    \/ \E k \in 1..Len(t) :
          LET lo == parse_u16(trim(SubSeq(t, 1, k - 1)))
              hi == parse_u16(trim(SubSeq(t, k + 1, Len(t))))
          IN t[k] = "-" /\ lo # None /\ hi # None /\ lo[1] <= p /\ p <= hi[1]

\* C9: for a validated pattern the port predicate holds on a context with
\* port p exactly when some entry covers p, and never on a context with no
\* port
C9_PortPredicate ==
    (port_match # None /\ unwrap(port_valid).ok) =>
        LET p == unwrap(port_arg)
            entries == split(port_pattern, ",")
        IN unwrap(port_match)
              <=> (p # None /\ \E i \in 1..Len(entries) : EntryCovers(entries[i], unwrap(p)))
C9_Witness ==
    /\ port_match = Some(TRUE)
    /\ unwrap(port_valid).ok
    /\ port_pattern = <<"2","2",",","1","0","0","0","-","2","0","0","0">>
    /\ port_arg = Some(Some(2000))

\* C10: a pattern *.suffix matches an sni only when the sni ends with
\* ".suffix", the dot included, letter case aside
C10_WildcardKeepsDot ==
    (sni_result # None /\ starts_with(sni_pattern, <<"*", ".">>)) =>
        (unwrap(sni_result) =>
            /\ sni_value # None
            /\ ends_with(to_lowercase(unwrap(sni_value)),
                         to_lowercase(Tail(sni_pattern))))

\* the first kind, in the order Route, SwitchRoute, Block, Throttle, whose
\* field is present in the action; LogOnly when none is
PlannedKind(a) ==
    IF a.route # None THEN [tag |-> "Route", name |-> a.route[1]]
    ELSE IF a.switch_route # None THEN [tag |-> "SwitchRoute", name |-> a.switch_route[1]]
    ELSE IF a.block = Some(TRUE) THEN [tag |-> "Block"]
    ELSE IF a.throttle # None THEN [tag |-> "Throttle", name |-> a.throttle[1]]
    ELSE [tag |-> "LogOnly"]

\* C11: plan_action picks the kind by the precedence Route > SwitchRoute >
\* Block > Throttle > LogOnly over the present fields; the log flag is the
\* action's log value, false when absent, and true when the kind is LogOnly
C11_PlanPrecedence ==
    plan_decision # None =>
        LET d == unwrap(plan_decision) IN
        /\ d.kind = PlannedKind(plan_arg)
        /\ d.log = (IF d.kind.tag = "LogOnly" THEN TRUE ELSE plan_arg.log = Some(TRUE))
C11_Witness ==
    /\ plan_arg = Action(None, Some(<<"b","u","l","k">>), Some(TRUE), Some(<<"f","a","s","t">>), None)
    /\ plan_decision = Some(ActionDecision(KindSwitchRoute(<<"b","u","l","k">>), FALSE))

\* the last blank-separated word of a command, and the value of a 0x numeral
LastWord(cmd) ==
    LET blanks == {i \in 1..Len(cmd) : cmd[i] = " "}
        from == IF blanks = {} THEN 1 ELSE 1 + CHOOSE i \in blanks : \A j \in blanks : j <= i
    IN SubSeq(cmd, from, Len(cmd))
RECURSIVE HexValue(_, _)
HexValue(word, acc) ==
    IF word = <<>> THEN acc
    ELSE LET d == CHOOSE k \in 0..15 : HexChars[k + 1] = Head(word)
         IN HexValue(Tail(word), acc * 16 + d)
IsMark(word) ==
    /\ Len(word) > 2
    /\ SubSeq(word, 1, 2) = <<"0", "x">>
    /\ \A i \in 3..Len(word) : \E k \in 0..15 : HexChars[k + 1] = word[i]
NamedKinds == {"Route", "SwitchRoute", "Throttle"}

\* C12: for either backend and any context, Route(n), SwitchRoute(n) and
\* Throttle(n) render to the same single command; its mark lies in
\* 0..0xFFFF and depends only on n; the log flag and the context's sni,
\* latency_ms and rtt_ms do not change the output
C12_SameMarkCommand ==
    (backend_plan # None /\ unwrap(plan_decision).kind.tag \in NamedKinds) =>
        LET plan == unwrap(backend_plan)
            n == unwrap(plan_decision).kind.name
            mark == LastWord(plan.commands[1])
        IN /\ Len(plan.commands) = 1
           /\ IsMark(mark)
           /\ HexValue(SubSeq(mark, 3, Len(mark)), 0) \in 0..65535
           /\ \A tag \in NamedKinds, log \in BOOLEAN, c \in BackendContexts :
                 LET other == render_backend(plan.backend, c,
                                  [kind |-> [tag |-> tag, name |-> n], log |-> log], hasher)
                 IN /\ Len(other.commands) = 1
                    /\ LastWord(other.commands[1]) = mark
                    /\ (c.protocol = backend_ctx.protocol /\ c.port = backend_ctx.port)
                          => other.commands = plan.commands
           /\ \A b \in BackendKinds :
                 LastWord(render_backend(b, backend_ctx, unwrap(plan_decision), hasher).commands[1])
                    = mark
C12_Witness ==
    /\ backend_plan # None
    /\ unwrap(plan_decision) = ActionDecision(KindThrottle(<<"b","u","l","k">>), TRUE)
    /\ hasher[<<"b","u","l","k">>] = 65536
    /\ backend_ctx.sni # None
    /\ unwrap(backend_plan).backend = "Nftables"
    /\ unwrap(backend_plan).commands = <<<<"n","f","t"," ","a","d","d"," ","r","u","l","e"," ","i","n","e","t"," ","n","e","t","p","o","l","i","c","y"," ","o","u","t","p","u","t"," ","t","c","p"," ","d","p","o","r","t"," ","4","4","3"," ","m","a","r","k"," ","s","e","t"," ","0","x","0">>>>

\* the result of parse_proxy_urls on entry i of the list alone
EntryAlone(urls, i) == parse_proxy_urls(<<urls[i]>>)
ErrorKinds == {"InvalidUrl", "Decode", "Parse"}

\* C13: parse_proxy_urls returns either one validated node per entry, in
\* the order of the entries, or the error of the first entry that fails,
\* of kind InvalidUrl, Decode or Parse, and then no node; the empty list
\* gives InvalidUrl
C13_AllOrNothing ==
    xray_result # None =>
        LET r == unwrap(xray_result)
            n == Len(xray_urls)
        IN IF r.ok
           THEN /\ n > 0
                /\ Len(r.value) = n
                /\ \A i \in 1..n :
                      /\ EntryAlone(xray_urls, i).ok
                      /\ r.value[i] = tagged(parse_entry(trim(xray_urls[i]), i - 1).value, i - 1)
                      /\ validate_node(r.value[i]).ok
                      /\ trim(r.value[i].server) # <<>>
                      /\ r.value[i].port > 0
           ELSE /\ r.kind \in ErrorKinds
                /\ n = 0 => r.kind = "InvalidUrl"
                /\ n > 0 =>
                      \E i \in 1..n :
                         /\ \A j \in 1..(i - 1) : EntryAlone(xray_urls, j).ok
                         /\ ~EntryAlone(xray_urls, i).ok
                         /\ EntryAlone(xray_urls, i).kind = r.kind
                         /\ EntryAlone(xray_urls, i).text = r.text
                         /\ r.line \in {0, i}
C13_Witness ==
    /\ xray_urls = <<Uri.TrojanDefault, Uri.VlessRealityNoKeys>>
    /\ xray_result = Some(ErrAt("Parse", 2, "reality requires pbk and sid"))
    /\ xray_config = None

\* the canonical form of a uuid: 36 characters, hyphens at the 0-based
\* positions 8, 13, 18 and 23, a digit or a letter a..f at the others
LowerHex == {HexChars[k] : k \in 1..16}
CanonicalUuid(u) ==
    /\ Len(u) = 36
    /\ \A i \in 1..Len(u) :
          IF i \in {9, 14, 19, 24} THEN u[i] = "-" ELSE u[i] \in LowerHex
UuidProtocols == {Proto.vmess, Proto.vless}

\* C14: every vmess or vless node that parse_proxy_urls returns carries a
\* uuid in canonical lowercase form, so an entry whose uuid holds an
\* uppercase hex digit is not accepted
C14_CanonicalUuid ==
    (xray_result # None /\ unwrap(xray_result).ok) =>
        \A i \in 1..Len(unwrap(xray_result).value) :
            LET node == unwrap(xray_result).value[i] IN
            node.protocol \in UuidProtocols =>
                /\ node.uuid # None
                /\ CanonicalUuid(unwrap(node.uuid))

\* entry i of the list is reached by the loop and parses to a node
Reached(urls, i) ==
    /\ \A j \in 1..(i - 1) : EntryAlone(urls, j).ok
    /\ trim(urls[i]) # <<>>
    /\ parse_entry(trim(urls[i]), i - 1).ok
ParsedNode(urls, i) == tagged(parse_entry(trim(urls[i]), i - 1).value, i - 1)
IsReality(node) == node.security = Some(SecurityReality)
RealityKeyMissing(node) ==
    \/ unwrap_or(node.reality_public_key, <<>>) = <<>>
    \/ unwrap_or(node.reality_short_id, <<>>) = <<>>
RealityKeysWellFormed(node) ==
    /\ node.reality_public_key # None
    /\ node.reality_short_id # None
    /\ Len(unwrap(node.reality_public_key)) \in REALITY_PBK_MIN..REALITY_PBK_MAX
    /\ \A i \in 1..Len(unwrap(node.reality_public_key)) :
          LET c == unwrap(node.reality_public_key)[i]
          IN is_ascii_alphanumeric(c) \/ c \in {"-", "_", "="}
    /\ Len(unwrap(node.reality_short_id)) \in {8, 16}
    /\ \A i \in 1..Len(unwrap(node.reality_short_id)) :
          is_ascii_hexdigit(unwrap(node.reality_short_id)[i])
AcceptedRealityHasKeys ==
    (xray_result # None /\ unwrap(xray_result).ok) =>
        \A i \in 1..Len(unwrap(xray_result).value) :
            IsReality(unwrap(xray_result).value[i])
                => RealityKeysWellFormed(unwrap(xray_result).value[i])
RealityRequiresKeys ==
    ErrAt("Parse", 0, "reality requires pbk and sid")

\* C15 as stated: a returned reality node carries a well-formed pbk and
\* sid, and every reality entry without pbk or sid ends the call with the
\* Parse error "reality requires pbk and sid" naming the entry's index
C15_RealityAlwaysNamed ==
    /\ AcceptedRealityHasKeys
    /\ xray_result # None =>
          \A i \in 1..Len(xray_urls) :
              (/\ Reached(xray_urls, i)
               /\ IsReality(ParsedNode(xray_urls, i))
               /\ RealityKeyMissing(ParsedNode(xray_urls, i)))
                 => unwrap(xray_result) = [RealityRequiresKeys EXCEPT !.line = i]

\* C15: a returned reality node carries a well-formed pbk and sid, and a
\* reality entry without pbk or sid that passes the server, port and
\* credential checks of its protocol ends the call with the Parse error
\* "reality requires pbk and sid" naming the entry's index
C15_RealityRequiresKeys ==
    /\ AcceptedRealityHasKeys
    /\ xray_result # None =>
          \A i \in 1..Len(xray_urls) :
              (/\ Reached(xray_urls, i)
               /\ IsReality(ParsedNode(xray_urls, i))
               /\ RealityKeyMissing(ParsedNode(xray_urls, i))
               /\ validate_node_protocol(ParsedNode(xray_urls, i)).ok)
                 => unwrap(xray_result) = [RealityRequiresKeys EXCEPT !.line = i]
C15_Witness ==
    /\ xray_urls = <<Uri.VlessRealityGood, Uri.VlessRealityPbkOnly>>
    /\ xray_result = Some([RealityRequiresKeys EXCEPT !.line = 2])

\* C16: build_xray_config gives Len(nodes) + 2 outbounds: outbound i has
\* the tag and protocol of node i, then comes direct (freedom) and last
\* reject (blackhole)
C16_OutboundOrder ==
    xray_config # None =>
        LET outbounds == unwrap(xray_config).outbounds
            n == Len(xray_nodes)
        IN /\ Len(outbounds) = n + 2
           /\ \A i \in 1..n :
                 /\ outbounds[i].tag = xray_nodes[i].tag
                 /\ outbounds[i].protocol = xray_nodes[i].protocol
           /\ outbounds[n + 1].tag = Tag.direct
           /\ outbounds[n + 1].protocol = Tag.freedom
           /\ outbounds[n + 2].tag = Tag.reject
           /\ outbounds[n + 2].protocol = Tag.blackhole
C16_Witness ==
    /\ Len(xray_nodes) = 2
    /\ xray_nodes[1].protocol = Proto.shadowsocks
    /\ xray_nodes[2].protocol = Proto.vless
    /\ xray_nodes[1].tag # xray_nodes[2].tag
    /\ xray_config # None
    /\ unwrap(xray_config).outbounds[2].protocol = Proto.vless
    /\ unwrap(xray_config).outbounds[4].tag = Tag.reject

TlsProtocols == {Proto.vmess, Proto.vless, Proto.trojan}

\* C17: in the configuration handle_xray_gen builds from the parsed
\* entries, the streamSettings of every vmess, vless or trojan node with
\* tls = true carry security "tls", whatever the letter case of the
\* security value in the entry
C17_TlsSecurityEmitted ==
    xray_config # None =>
        \A i \in 1..Len(xray_nodes) :
            (xray_nodes[i].protocol \in TlsProtocols /\ xray_nodes[i].tls) =>
                LET stream == unwrap(xray_config).outbounds[i].stream_settings IN
                /\ stream # None
                /\ "security" \in DOMAIN unwrap(stream)
                /\ unwrap(stream).security = SecurityTls

\* the three balancers over a list of tags
ThreeBalancers(tags) ==
    <<[tag |-> Tag.best_ping, selector |-> tags, strategy |-> [type |-> Tag.leastPing]],
      [tag |-> Tag.load_balance, selector |-> tags, strategy |-> [type |-> Tag.random]],
      [tag |-> Tag.fallback, selector |-> tags, strategy |-> [type |-> Tag.random]]>>

\* C18: the routing section of build_xray_config holds exactly the three
\* balancers best_ping (leastPing), load_balance (random) and fallback
\* (random), each selecting all node tags in input order, for every list
\* of nodes, the empty list included
C18_ThreeBalancersAlways ==
    xray_config # None =>
        unwrap(xray_config).routing.balancers
            = ThreeBalancers([i \in 1..Len(xray_nodes) |-> xray_nodes[i].tag])

\* the children not waited for yet, and whether the manager's child runs
Unreaped(procs) == {pid \in 1..Len(procs) : procs[pid] # "reaped"}
Alive(m) == is_some(m.process) /\ m.children[unwrap(m.process)] = "running"
ExitedUnreaped(m) == is_some(m.process) /\ m.children[unwrap(m.process)] = "exited"

\* C19: the manager never has more than one child: a start while the
\* child runs spawns nothing, keeps the pid and returns Ok; a stop while
\* no child runs returns Ok, spawns and kills nothing; both reap a child
\* that has exited on its own, so that a start after the exit spawns a
\* fresh child
C19_SingleChild ==
    /\ Cardinality(Unreaped(children)) <= 1
    /\ Unreaped(children) \subseteq {pid \in 1..Len(children) : process = Some(pid)}
    /\ (mgr_call.op = "start" /\ Alive(mgr_call.before)) =>
          /\ mgr_call.result.ok
          /\ mgr_call.after = mgr_call.before
    /\ (mgr_call.op = "stop" /\ ~Alive(mgr_call.before)) =>
          /\ mgr_call.result.ok
          /\ mgr_call.after.process = None
          /\ Len(mgr_call.after.children) = Len(mgr_call.before.children)
          /\ Unreaped(mgr_call.after.children) = {}
          /\ mgr_call.before.process = None => mgr_call.after = mgr_call.before
    /\ (mgr_call.op = "start" /\ ExitedUnreaped(mgr_call.before) /\ mgr_call.result.ok) =>
          /\ mgr_call.after.process = Some(Len(mgr_call.before.children) + 1)
          /\ Unreaped(mgr_call.after.children) = {Len(mgr_call.before.children) + 1}
C19_Witness ==
    /\ mgr_call.op = "start"
    /\ mgr_call.before = Manager(Some(1), <<"exited">>)
    /\ process = Some(2)
    /\ children = <<"reaped", "running">>

\* whether the pass recorded in live_tick attempted a reload
ReloadAttempted ==
    /\ live_args.hot_reload
    /\ changed(live_tick.before.last_modified, file_mtime(live_tick.file))

\* C20: with hot reload on, a pass whose reload fails (file unreadable,
\* YAML error, validation error) keeps the ruleset it had and evaluates
\* with it; a pass whose reload succeeds evaluates with the whole new
\* ruleset; between passes the ruleset in use does not change
C20_ReloadKeepsOrReplaces ==
    /\ ruleset = live_tick.used
    /\ validate_ruleset(ruleset).ok
    /\ live_tick.op = "tick" =>
          /\ (ReloadAttempted /\ ~load_ruleset(live_tick.file).ok) =>
                /\ live_tick.reload = "failed"
                /\ live_tick.used = live_tick.before.ruleset
                /\ last_modified = live_tick.before.last_modified
          /\ (ReloadAttempted /\ load_ruleset(live_tick.file).ok) =>
                /\ live_tick.reload = "ok"
                /\ live_tick.used = live_tick.file.yaml.rules
                /\ last_modified = file_mtime(live_tick.file)
          /\ ~ReloadAttempted =>
                /\ live_tick.reload = "none"
                /\ live_tick.used = live_tick.before.ruleset
          /\ live_tick.decision
                = evaluate_ruleset(live_tick.used, live_tick.ctx, live_args.state)
C20_Witness ==
    /\ live_tick.op = "tick"
    /\ live_tick.before.reload = "failed"
    /\ live_tick.before.ruleset = <<LiveRule.general>>
    /\ live_tick.reload = "ok"
    /\ ruleset = <<LiveRule.specific, LiveRule.failover_rule>>
    /\ live_args.state = "Failover"
    /\ live_tick.decision.value.rule = Some(2)

\* whether the inspection of the pass recorded in live_tick failed
InspectionFailed == query_connection(live_tick.ss) = None

\* C21: a pass of the live loop whose inspection fails (ss cannot be run,
\* exits with failure, or lists no usable connection) evaluates no ruleset
\* and plans, prints and executes no backend command
C21_FailedInspectionSkipped ==
    (live_tick.op = "tick" /\ InspectionFailed) =>
        /\ live_tick.decision = None
        /\ live_tick.plan = None
        /\ live_tick.printed = <<>>
        /\ live_tick.executed = <<>>

\* C22: the state a pass of the live loop evaluates in is the one the state
\* machine's transition gives from the state of the pass before and the
\* latency that pass observed (NORMAL, then DEGRADED, then FAILOVER while
\* the latency stays high)
C22_StateAdvancedBetweenPasses ==
    [][(live_tick.op = "tick" /\ live_tick'.op = "tick" /\ live_tick' # live_tick) =>
          live_tick'.state = transition(live_tick.state, live_tick.ctx.latency_ms, None)]_vars

\* a snapshot that has completed, and the counters it reports
Completed(t) == tel_threads[t].op = "snapshot" /\ tel_threads[t].todo = <<>>
\* no completed snapshot reports less, for any counter, than a snapshot that
\* had completed when it was called
SnapshotsOrdered ==
    \A t \in Threads : Completed(t) =>
        \A c \in CounterNames : tel_threads[t].snap[c] >= tel_threads[t].base[c]
\* no step takes a counter down
NoDecrease == \A c \in CounterNames : telemetry'[c] >= telemetry[c]

\* C23: under every interleaving of the steps of concurrent record_* and
\* snapshot calls, a snapshot called after another one completed reports no
\* smaller value for any counter, and no step of a call decreases a counter
C23_CountersMonotonic == []SnapshotsOrdered /\ [][NoDecrease]_vars
C23_Witness ==
    \E t \in Threads :
        /\ Completed(t)
        /\ tel_threads[t].base.decisions = 1 /\ tel_threads[t].snap.decisions = 1
        /\ tel_threads[t].base.errors = 0 /\ tel_threads[t].snap.errors = 1

\* whether some record_decision call has not returned yet
Deciding == \E t \in Threads : tel_threads[t].op = "record_decision" /\ tel_threads[t].todo # <<>>

\* C28: under every interleaving of concurrent record_decision calls the
\* stored matches never exceeds the stored decisions, and once every call
\* has returned decisions is the number of calls and matches the number of
\* calls made with matched = true
C28_NoLostDecision ==
    /\ telemetry.matches <= telemetry.decisions
    /\ ~Deciding =>
          /\ telemetry.decisions = tel_calls.decisions
          /\ telemetry.matches = tel_calls.matched
C28_Witness ==
    /\ ~Deciding
    /\ tel_calls.decisions = MaxCalls
    /\ tel_calls.matched = 2 /\ tel_calls.total = MaxCalls
    /\ telemetry.decisions = MaxCalls
    /\ telemetry.matches = 2

\* C24: for an action that validate_action accepts plan_action never gives
\* LogOnly: the kind is that of the one primary of the action, with its name
\* (Route, SwitchRoute, Block for block = true, Throttle), and the log flag
\* is the log value of the action, false when it has none
C24_ValidatedNeverLogOnly ==
    (plan_decision # None /\ validate_action(plan_arg).ok) =>
        /\ unwrap(plan_decision).kind # KindLogOnly
        /\ is_some(plan_arg.route) =>
              unwrap(plan_decision).kind = KindRoute(unwrap(plan_arg.route))
        /\ is_some(plan_arg.switch_route) =>
              unwrap(plan_decision).kind = KindSwitchRoute(unwrap(plan_arg.switch_route))
        /\ plan_arg.block = Some(TRUE) => unwrap(plan_decision).kind = KindBlock
        /\ is_some(plan_arg.throttle) =>
              unwrap(plan_decision).kind = KindThrottle(unwrap(plan_arg.throttle))
        /\ unwrap(plan_decision).log = unwrap_or(plan_arg.log, FALSE)
C24_Witness ==
    /\ plan_arg = Action(None, None, Some(FALSE), Some(<<"b","u","l","k">>), None)
    /\ validate_action(plan_arg).ok
    /\ plan_decision = Some(ActionDecision(KindThrottle(<<"b","u","l","k">>), FALSE))

\* C25: status() reports running = true and the pid exactly when the manager
\* holds a child that has not exited when it is called; a child that exited
\* on its own is reaped by status() and reported as not running with no pid;
\* once stop() has returned status() reports running = false
C25_StatusReportsLiveChild ==
    /\ mgr_call.op = "status" =>
          /\ mgr_call.result.ok
          /\ mgr_call.result.running = Alive(mgr_call.before)
          /\ mgr_call.result.pid
                = (IF Alive(mgr_call.before) THEN mgr_call.before.process ELSE None)
          /\ ExitedUnreaped(mgr_call.before) =>
                /\ mgr_call.after.process = None
                /\ mgr_call.after.children[unwrap(mgr_call.before.process)] = "reaped"
                /\ ~mgr_call.result.running
                /\ mgr_call.result.pid = None
    /\ mgr_call.op = "stop" =>
          status(Manager(process, children)).result = XrayStatusResponse(FALSE, None)
C25_Witness ==
    /\ mgr_call.op = "status"
    /\ mgr_call.before = Manager(Some(2), <<"reaped", "exited">>)
    /\ mgr_call.result = XrayStatusResponse(FALSE, None)
    /\ process = None
    /\ children = <<"reaped", "reaped">>

\* what the request recorded in web_call added to a counter
Added(counter) == telemetry[counter] - web_call.before[counter]

\* C29: a handled dry-run request makes exactly one record: it adds one to
\* decisions or one to errors, never to both and never to neither, and
\* nothing to the xray counters; matches grows by one exactly when a rule
\* was selected, and last_error is replaced exactly when errors grew
C29_DryRunOneRecord ==
    web_call.op = "dry_run" =>
        /\ <<Added("decisions"), Added("errors")>> \in {<<1, 0>>, <<0, 1>>}
        /\ Added("xray_start") = 0 /\ Added("xray_stop") = 0 /\ Added("xray_restart") = 0
        /\ Added("matches") = (IF is_some(unwrap(web_call.response).rule) THEN 1 ELSE 0)
        /\ Added("matches") <= Added("decisions")
        /\ Added("errors") = 1 =>
              /\ is_some(unwrap(web_call.response).error)
              /\ telemetry.last_error = unwrap(web_call.response).error
        /\ Added("errors") = 0 => telemetry.last_error = web_call.before.last_error
C29_Witness ==
    /\ web_call.op = "dry_run"
    /\ web_call.before.errors = 1
    /\ is_some(web_call.before.last_error)
    /\ unwrap(web_call.response).rule = Some(LiveRule.failover_rule.name)
    /\ telemetry.matches = web_call.before.matches + 1
    /\ telemetry.last_error = web_call.before.last_error

\* C30: when the start step of restart fails (the log cannot be opened or
\* the binary cannot be spawned) restart returns the error and the manager
\* holds no child: the child it had was killed and waited for and is not
\* restored, xray_restart is not incremented, and a status() that follows
\* reports running = false
C30_FailedRestartLeavesNoChild ==
    (web_call.op = "restart" /\ ~web_call.result.ok) =>
        /\ web_call.result.text \in {"failed to open xray log", "failed to start xray"}
        /\ unwrap(web_call.response) = XrayStatusFailed(Plain(web_call.result.text))
        /\ process = None
        /\ Len(children) = Len(web_call.manager.children)
        /\ Unreaped(children) = {}
        /\ Added("xray_restart") = 0
        /\ Added("errors") = 1
        /\ status(Manager(process, children)).result = XrayStatusResponse(FALSE, None)
C30_Witness ==
    /\ web_call.op = "restart"
    /\ web_call.result = Err("Start", "failed to open xray log")
    /\ web_call.manager = Manager(Some(1), <<"running">>)
    /\ process = None
    /\ children = <<"reaped">>
    /\ telemetry.xray_restart = 0
    /\ telemetry.last_error = Some(Plain("failed to open xray log"))

\* an observation is bad when the latency is above 120 ms or the error rate
\* above 0.05; an absent value is healthy
BadObservation(latency_ms, error_rate) ==
    \/ (is_some(latency_ms) /\ unwrap(latency_ms) > 120)
    \/ (is_some(error_rate) /\ ~unwrap(error_rate).nan /\ unwrap(error_rate).v > 50)
\* the call before was a transition on a bad, or on a healthy, observation
AfterBad == sm_op = "transition" /\ BadObservation(sm_latency, sm_error)
AfterHealthy == sm_op = "transition" /\ ~BadObservation(sm_latency, sm_error)

\* C27: from every state the second of two consecutive bad observations
\* leaves the state machine in FAILOVER, and a bad observation in FAILOVER
\* keeps it there; the second of two consecutive healthy observations
\* leaves it in NORMAL, and a healthy observation in NORMAL keeps it there
C27_TwoObservationsSettle ==
    [][sm_op' = "transition" =>
          /\ (BadObservation(sm_latency', sm_error') /\ (AfterBad \/ sm_state = "Failover"))
                => sm_state' = "Failover"
          /\ (~BadObservation(sm_latency', sm_error') /\ (AfterHealthy \/ sm_state = "Normal"))
                => sm_state' = "Normal"]_vars
C27_Witness ==
    /\ sm_op = "transition"
    /\ sm_prev = "Degraded"
    /\ sm_latency = Some(121)
    /\ sm_error = Some(F32NaN)
    /\ sm_state = "Failover"

\* the lines of the DSL text parsed, the lines that are blank or comments,
\* the rule headers, and the other lines that come before every header
DslInput == IF source.kind = "dsl" THEN source.lines ELSE <<>>
DslSkipped(line) == trim(line) = <<>> \/ Head(trim(line)) = "#"
DslHeaders ==
    {i \in 1..Len(DslInput) :
        ~DslSkipped(DslInput[i]) /\ starts_with(trim(DslInput[i]), <<"r","u","l","e"," ">>)}
DslStray ==
    {i \in 1..Len(DslInput) :
        /\ ~DslSkipped(DslInput[i])
        /\ i \notin DslHeaders
        /\ \A j \in DslHeaders : j > i}
\* the line of the k-th header, and the lines of its block
DslHeaderAt(k) == CHOOSE i \in DslHeaders : Cardinality({j \in DslHeaders : j <= i}) = k
DslBlock(k) ==
    {i \in 1..Len(DslInput) :
        i > DslHeaderAt(k) /\ \A j \in DslHeaders : j > DslHeaderAt(k) => i < j}
DslBlockHas(k, line) == \E i \in DslBlock(k) : DslInput[i] = line

\* C26: a line that is not blank, not a comment and not a rule header, and
\* comes before the first header, makes parse_dsl fail with an error naming
\* its 1-based line number, blank and comment lines counted, and no
\* ruleset; a successful parse gives one rule per header in header order,
\* each with the directives of its own block
C26_DslBlocks ==
    (source.kind = "dsl" /\ loaded # None) =>
        /\ DslStray # {} =>
              unwrap(loaded) = ErrAt("Invalid", CHOOSE i \in DslStray : \A j \in DslStray : i <= j,
                                     "content must be inside a rule block")
        /\ unwrap(loaded).ok =>
              /\ Len(unwrap(loaded).value) = Cardinality(DslHeaders)
              /\ \A k \in 1..Len(unwrap(loaded).value) :
                    /\ unwrap(loaded).value[k].name
                          = (IF DslInput[DslHeaderAt(k)] = DslText.rule_a THEN <<"a">> ELSE <<"b">>)
                    /\ unwrap(loaded).value[k].priority
                          = (IF DslBlockHas(k, DslText.priority) THEN 5 ELSE 0)
                    /\ unwrap(loaded).value[k].action.route = Some(<<"f","a","s","t">>)
                          <=> DslBlockHas(k, DslText.route)
                    /\ unwrap(loaded).value[k].action.block = Some(TRUE)
                          <=> DslBlockHas(k, DslText.block)
C26_Witness ==
    /\ source = DslSource(<<DslText.note, DslText.blank, DslText.priority, DslText.rule_a>>)
    /\ loaded = Some(ErrAt("Invalid", 3, "content must be inside a rule block"))

====
